---- MODULE Spec2Model ----
(***************************************************************************)
(* Model of the G-TRAF+ admin dashboard (src/src/Composant/Dashboard.jsx): *)
(*   - calcCarPrice, the price estimate of a vehicle reservation, and the  *)
(*     three places of ReservationsTab that display it;                    *)
(*   - DataTable, the sorted and filtered view of a record list, driven by *)
(*     the Dashboard's search box and column headers;                      *)
(*   - PortfolioTab's own filter in front of DataTable, and the value the  *)
(*     Dashboard keeps in localStorage;                                    *)
(*   - the create/edit form of ReservationsTab and its submission.         *)
(*                                                                         *)
(* JavaScript values are modelled as tagged records, strings that are      *)
(* compared or searched as sequences of UTF-16 code units.                 *)
(***************************************************************************)
EXTENDS Integers, Sequences, FiniteSets, TLC

VARIABLES
    reservation,   \* the object handed to calcCarPrice (table row, formData or viewReservation)
    site,          \* which place of ReservationsTab rendered the price last
    price,         \* the value calcCarPrice returned there
    data,          \* DataTable's data prop
    searchTerm,    \* Dashboard.searchTerm
    sortConfig,    \* Dashboard.sortConfig: [field, direction]
    sortedData,    \* DataTable.sortedData (useMemo)
    filteredData,  \* DataTable.filteredData (useMemo): the rows displayed
    records,       \* the record list the rendered tab holds in state (data.devis, data.portfolio, ...)
    filters,       \* PortfolioTab.filters
    storage,       \* localStorage under STORAGE_KEY
    formData,      \* ReservationsTab.formData
    modal,         \* Dashboard.modal
    toast,         \* Dashboard.toast
    requests,      \* the requests ReservationsTab has sent with fetch, in order
    inflight,      \* the requests whose response has not arrived
    server,        \* the reservations the API holds
    loading,       \* ReservationsTab.loading
    viewReservation, \* ReservationsTab.viewReservation
    currentTab,    \* Dashboard.currentTab
    confirmDialog, \* Dashboard.confirmDialog
    dashboardData, \* Dashboard.data
    reads,         \* the FileReader loads of handleFileImport not yet completed
    authFormData,  \* Authentification.formData
    errors,        \* Authentification.errors
    isLoading,     \* Authentification.isLoading
    authToast,     \* Authentification.toast
    redirectToDashboard, \* Authentification.redirectToDashboard
    redirectTimer, \* the setTimeout of handleSubmit is pending
    location,      \* window.location.href
    authStorage,   \* localStorage under 'user', 'isAuthenticated' and 'authToken'
    loginRequests, \* the login requests sent, in order
    loginInflight  \* the login requests whose response has not arrived

priceVars == <<reservation, site, price>>
tableVars == <<data, searchTerm, sortConfig, sortedData, filteredData>>
storeVars == <<records, filters, storage>>
formVars == <<formData, modal, toast, requests, inflight>>
tabVars == <<server, loading, viewReservation, currentTab, confirmDialog>>
dashVars == <<dashboardData, reads>>
authVars == <<authFormData, errors, isLoading, authToast, redirectToDashboard, redirectTimer,
              location, authStorage, loginRequests, loginInflight>>
otherVars == <<dashVars, authVars>>
vars == <<priceVars, tableVars, storeVars, formVars, tabVars, otherVars>>

(***************************************************************************)
(* Bounds of the model.                                                    *)
(***************************************************************************)
\* Dates range over the days 1..MaxDay of one month.
MaxDay == 2
\* The record lists that are searched and sorted hold at most MaxRows records.
MaxRows == 3
\* The record lists that are only sorted hold at most MaxSortRows records.
MaxSortRows == 4

(***************************************************************************)
(* JavaScript values.                                                      *)
(***************************************************************************)
Undefined == [t |-> "undefined"]
Null == [t |-> "null"]
NaN == [t |-> "NaN"]
Num(n) == [t |-> "number", v |-> n]
Bool(b) == [t |-> "boolean", v |-> b]
\* A string value; s is its sequence of code units.
Str(s) == [t |-> "string", v |-> s]
\* A function or object value (never a primitive here).
Obj == [t |-> "object"]

\* sortConfig.field when no column was clicked (null).
NoField == ""

\* ToBoolean.
Truthy(x) ==
    CASE x.t = "undefined" -> FALSE
      [] x.t = "null" -> FALSE
      [] x.t = "NaN" -> FALSE
      [] x.t = "number" -> x.v # 0
      [] x.t = "boolean" -> x.v
      [] x.t = "string" -> x.v # <<>>
      [] OTHER -> TRUE

(***************************************************************************)
(* calcCarPrice (Dashboard.jsx 55-84).                                     *)
(*                                                                         *)
(* A date string "YYYY-MM-DD" of the form's <input type="date"> is <<d>>,  *)
(* d the day of a fixed month; a time string "HH:MM" is <<m>>, m the       *)
(* minutes since midnight; the empty string is <<>>.  Vehicle types are    *)
(* TLA+ strings (they are only used as property keys).                     *)
(***************************************************************************)
MsPerDay == 86400000
DefaultBasePrice == 120
DriverRate == 50
UnlimitedKmRate == 30
AllRiskRate == 25
EquipmentRate == 10

\* A vehicleType property that is undefined (absent from the object).
UndefinedType == "undefined"

\* !s for a string-valued field.
Missing(s) == s = <<>>

\* new Date(`${date}T${time}`): the instant, in ms, of a local date and time
\* (both non-empty); the zone offset is taken constant and left out.
NewDate(date, time) == date[1] * MsPerDay + time[1] * 60000

\* Math.floor(x / d) for d > 0.
MathFloorDiv(x, d) == x \div d

\* Math.ceil(x / d) for d > 0 (-0 is 0).
MathCeilDiv(x, d) == -((-x) \div d)

\* The object literal vehiclePricing: its own properties.
vehiclePricing ==
    ("Citadine" :> 80) @@ ("Berline" :> 120) @@ ("SUV/4x4" :> 180)
        @@ ("Utilitaire" :> 100) @@ ("Minibus" :> 200)

\* Property names every object literal inherits from Object.prototype.
ObjectPrototypeKeys ==
    {"constructor", "toString", "toLocaleString", "valueOf", "hasOwnProperty",
     "isPrototypeOf", "propertyIsEnumerable", "__proto__"}

\* vehiclePricing[key]: an own property, an inherited one, or undefined.
VehiclePricingGet(key) ==
    IF key \in DOMAIN vehiclePricing THEN Num(vehiclePricing[key])
    ELSE IF key \in ObjectPrototypeKeys THEN Obj
    ELSE Undefined

\* basePrice = vehiclePricing[reservation.vehicleType] || 120
BasePrice(r) ==
    LET v == VehiclePricingGet(r.vehicleType)
    IN  IF Truthy(v) THEN v ELSE Num(DefaultBasePrice)

\* The day count: Math.ceil((end - start) / (1000 * 60 * 60 * 24)).
Days(r) ==
    LET start == NewDate(r.startDate, r.startTime)
        end == NewDate(r.endDate, r.endTime)
    IN  MathCeilDiv(end - start, MsPerDay)

\* array.includes(x) on a sequence.
ArrayIncludes(arr, x) == \E i \in 1..Len(arr) : arr[i] = x

\* The option surcharges added to basePrice * days.
Options(r, days) ==
    (IF r.driver THEN DriverRate * days ELSE 0)
    + (IF r.unlimitedKm THEN UnlimitedKmRate * days ELSE 0)
    + (IF ArrayIncludes(r.insurances, "Tous risques") THEN AllRiskRate * days ELSE 0)
    + (IF Len(r.equipments) > 0 THEN EquipmentRate * Len(r.equipments) * days ELSE 0)

\* The early return of calcCarPrice.
Incomplete(r) ==
    Missing(r.startDate) \/ Missing(r.endDate) \/ Missing(r.startTime) \/ Missing(r.endTime)

\* calcCarPrice with an early return that tests the two dates only: the template
\* strings then end in "T", the dates are invalid and every product is NaN.
calcCarPriceDatesOnly(r) ==
    IF Missing(r.startDate) \/ Missing(r.endDate) THEN Num(0)
    ELSE IF Missing(r.startTime) \/ Missing(r.endTime) THEN NaN
    ELSE LET days == Days(r)
             basePrice == BasePrice(r)
         IN  IF basePrice.t # "number"
             THEN NaN
             ELSE Num(basePrice.v * days + Options(r, days))

\* calcCarPrice that takes the deposit already paid off the total.
calcCarPriceLessDeposit(r) ==
    LET deposit == IF "deposit" \in DOMAIN r THEN r.deposit ELSE 0
    IN  IF Incomplete(r) THEN Num(0)
        ELSE LET days == Days(r)
                 basePrice == BasePrice(r)
             IN  IF basePrice.t # "number"
                 THEN NaN
                 ELSE Num(basePrice.v * days + Options(r, days) - deposit)

calcCarPrice(r) ==
    IF Incomplete(r) THEN Num(0)
    ELSE LET days == Days(r)
             basePrice == BasePrice(r)
         IN  IF basePrice.t # "number"
             THEN NaN      \* a function times a number, and every sum with it
             ELSE Num(basePrice.v * days + Options(r, days))

(***************************************************************************)
(* The reservations handed to calcCarPrice.                                *)
(***************************************************************************)
Dates == {<<>>} \cup {<<d>> : d \in 1..MaxDay}
Times == {<<>>, <<600>>, <<601>>}
VehicleTypes ==
    {"Citadine", "Berline", "SUV/4x4", "Utilitaire", "Minibus",
     "", UndefinedType, "Camion", "toString"}
InsuranceLists ==
    {<<>>, <<"Tiers">>, <<"Tous risques">>,
     <<"Tiers", "Tous risques">>, <<"Tous risques", "Tiers">>}
EquipmentLists ==
    {<<>>, <<"GPS">>, <<"Wi-Fi">>, <<"GPS", "Wi-Fi">>, <<"Wi-Fi", "GPS">>}

Reservations ==
    [vehicleType : VehicleTypes,
     startDate : Dates, startTime : Times, endDate : Dates, endTime : Times,
     driver : BOOLEAN, unlimitedKm : BOOLEAN,
     insurances : InsuranceLists, equipments : EquipmentLists]

\* The initial formData of ReservationsTab (829-850), priced fields only.
EmptyForm ==
    [vehicleType |-> "", startDate |-> <<>>, startTime |-> <<>>,
     endDate |-> <<>>, endTime |-> <<>>, driver |-> FALSE, unlimitedKm |-> FALSE,
     insurances |-> <<>>, equipments |-> <<>>]

\* The initial formData with the fields handleSubmit reads besides the
\* priced ones (address, idNumber, model, paymentMethod and deposit are read
\* by nothing the model covers).
EmptyFormData ==
    EmptyForm @@ [name |-> "", email |-> "", phone |-> Str(<<>>), pickupLocation |-> "",
                  dropoffLocation |-> "", notes |-> Str(<<>>)]

NotRendered == [t |-> "none"]

\* The column 'Prix estimé' of the reservations table renders a row.
RenderTablePrice ==
    /\ price' = calcCarPrice(reservation)
    /\ site' = "table"
    /\ UNCHANGED <<reservation, tableVars, storeVars, formVars, tabVars, otherVars>>

\* The live preview of the create/edit form, shown once the vehicle type and
\* both dates are filled.
RenderPreviewPrice ==
    /\ reservation.vehicleType \notin {"", UndefinedType}
    /\ ~Missing(reservation.startDate)
    /\ ~Missing(reservation.endDate)
    /\ price' = calcCarPrice(reservation)
    /\ site' = "preview"
    /\ UNCHANGED <<reservation, tableVars, storeVars, formVars, tabVars, otherVars>>

\* The detail view of a reservation.
RenderDetailPrice ==
    /\ price' = calcCarPrice(reservation)
    /\ site' = "detail"
    /\ UNCHANGED <<reservation, tableVars, storeVars, formVars, tabVars, otherVars>>

TableIdle ==
    /\ data = <<>>
    /\ searchTerm = <<>>
    /\ sortConfig = [field |-> NoField, direction |-> "asc"]
    /\ sortedData = <<>>
    /\ filteredData = <<>>

\* PortfolioTab.filters as first rendered (1582-1584).
NoFilters == [categorie |-> <<>>]

\* No list filter set and nothing in localStorage.
StoreIdle ==
    /\ filters = NoFilters
    /\ storage = Null

\* Dashboard.modal as first rendered (2139) and as closeModal leaves it (2172).
ClosedModal == [isOpen |-> FALSE, type |-> "", data |-> Null]

\* No modal, no toast (2137), the form as first rendered, nothing sent.
\* Dashboard.confirmDialog closed (2138).
NoDialog == [isOpen |-> FALSE]

\* An array value; list is the sequence of its elements.
Arr(list) == [t |-> "array", v |-> list]

\* initialData (Dashboard.jsx 9-13).
initialData == [devis |-> Arr(<<>>), reservations |-> Arr(<<>>), portfolio |-> Arr(<<>>)]

\* The Dashboard as constructed, no file being read.
DashIdle ==
    /\ dashboardData = initialData
    /\ reads = <<>>

\* The login screen as constructed (Authentification.jsx 23-31), nothing
\* written in localStorage, the page not left.
AuthIdle ==
    /\ authFormData = [email |-> <<>>, password |-> <<>>]
    /\ errors = {}
    /\ isLoading = FALSE
    /\ authToast = Null
    /\ redirectToDashboard = FALSE
    /\ redirectTimer = FALSE
    /\ location = "/"
    /\ authStorage = {}
    /\ loginRequests = <<>>
    /\ loginInflight = <<>>

\* ReservationsTab not in use: the initial tab is shown, nothing is loading.
TabIdle ==
    /\ server = <<>>
    /\ loading = FALSE
    /\ viewReservation = Null
    /\ currentTab = "accueil"
    /\ confirmDialog = NoDialog

FormIdle ==
    /\ formData = EmptyFormData
    /\ modal = ClosedModal
    /\ toast = Null
    /\ requests = <<>>
    /\ inflight = <<>>

Init ==
    /\ reservation \in Reservations
    /\ site = "none"
    /\ price = NotRendered
    /\ TableIdle
    /\ records = <<>>
    /\ StoreIdle
    /\ FormIdle
    /\ TabIdle
    /\ DashIdle
    /\ AuthIdle

Next ==
    \/ RenderTablePrice
    \/ RenderPreviewPrice
    \/ RenderDetailPrice

Spec == Init /\ [][Next]_vars

(***************************************************************************)
(* JavaScript strings and comparisons used by DataTable.                   *)
(***************************************************************************)
\* String.prototype.toLowerCase on the code units of A..Z.
ToLowerCase(s) == [i \in 1..Len(s) |-> IF s[i] \in 65..90 THEN s[i] + 32 ELSE s[i]] \o <<>>

\* String.prototype.toUpperCase on the code units of a..z.
ToUpperCase(s) == [i \in 1..Len(s) |-> IF s[i] \in 97..122 THEN s[i] - 32 ELSE s[i]] \o <<>>

\* String.prototype.includes: t occurs in s as a substring.
StringIncludes(s, t) ==
    \E i \in 0..(Len(s) - Len(t)) : \A k \in 1..Len(t) : s[i + k] = t[k]

\* The decimal digits of a natural number.
RECURSIVE Digits(_)
Digits(n) == IF n < 10 THEN <<48 + n>> ELSE Digits(n \div 10) \o <<48 + (n % 10)>>

\* String(value).
JsString(x) ==
    CASE x.t = "undefined" -> <<117, 110, 100, 101, 102, 105, 110, 101, 100>>
      [] x.t = "null" -> <<110, 117, 108, 108>>
      [] x.t = "NaN" -> <<78, 97, 78>>
      [] x.t = "boolean" -> IF x.v THEN <<116, 114, 117, 101>> ELSE <<102, 97, 108, 115, 101>>
      [] x.t = "number" -> IF x.v < 0 THEN <<45>> \o Digits(-x.v) ELSE Digits(x.v)
      [] x.t = "string" -> x.v

\* The value of a string of decimal digits.
RECURSIVE DigitsValue(_)
DigitsValue(s) ==
    IF s = <<>> THEN 0 ELSE 10 * DigitsValue(SubSeq(s, 1, Len(s) - 1)) + (s[Len(s)] - 48)

\* ToNumber on the values of the model: the strings are the empty string,
\* strings of digits, and strings that are no numeric literal.
ToNumber(x) ==
    CASE x.t = "undefined" -> NaN
      [] x.t = "null" -> Num(0)
      [] x.t = "NaN" -> NaN
      [] x.t = "boolean" -> IF x.v THEN Num(1) ELSE Num(0)
      [] x.t = "number" -> x
      [] x.t = "string" ->
            IF \A i \in 1..Len(x.v) : x.v[i] \in 48..57 THEN Num(DigitsValue(x.v)) ELSE NaN

\* s before t in the order of code units.
StringLess(s, t) ==
    \E k \in 0..Len(s) :
        /\ k <= Len(t)
        /\ SubSeq(s, 1, k) = SubSeq(t, 1, k)
        /\ \/ k = Len(s) /\ k < Len(t)
           \/ k < Len(s) /\ k < Len(t) /\ s[k + 1] < t[k + 1]

\* a < b on primitives: two strings by code units, anything else as numbers,
\* false when either number is NaN.
LessThan(a, b) ==
    IF a.t = "string" /\ b.t = "string" THEN StringLess(a.v, b.v)
    ELSE LET na == ToNumber(a)
             nb == ToNumber(b)
         IN  na.t = "number" /\ nb.t = "number" /\ na.v < nb.v

(***************************************************************************)
(* The records of the model.  A record is a function from the names of its *)
(* own properties to values; Objects holds the record objects and a list   *)
(* of records is a sequence of references (indices) into it.  The records  *)
(* have the sortable columns 'name' and 'budget' of the quote-request      *)
(* table; the budget comes from the API as a number, a string, or not at  *)
(* all.                                                                    *)
(***************************************************************************)
Rec(name, budget) == ("name" :> Str(name)) @@ ("budget" :> budget)

Objects ==
    <<Rec(<<97>>, Num(2)),                  \* 1: name "a",  budget 2
      Rec(<<66>>, Num(2)),                  \* 2: name "B",  budget 2
      Rec(<<97>>, Num(10)),                 \* 3: name "a",  budget 10
      Rec(<<66>>, Str(<<57>>)),             \* 4: name "B",  budget "9"
      ("name" :> Str(<<97, 98>>)),          \* 5: name "ab", no budget property
      \* 6: titre "B", categorie "R", description "B", budget "1", annee "9"
      ("titre" :> Str(<<66>>)) @@ ("categorie" :> Str(<<82>>)) @@ ("description" :> Str(<<66>>))
          @@ ("budget" :> Str(<<49>>)) @@ ("annee" :> Str(<<57>>)),
      \* 7: titre "a", categorie "R", localisation "B", description "B", budget "9", annee "9"
      ("titre" :> Str(<<97>>)) @@ ("categorie" :> Str(<<82>>)) @@ ("localisation" :> Str(<<66>>))
          @@ ("description" :> Str(<<66>>)) @@ ("budget" :> Str(<<57>>)) @@ ("annee" :> Str(<<57>>)),
      \* 8: titre "B", categorie "C", localisation "a", description "ab", budget "9", annee "1"
      ("titre" :> Str(<<66>>)) @@ ("categorie" :> Str(<<67>>)) @@ ("localisation" :> Str(<<97>>))
          @@ ("description" :> Str(<<97, 98>>)) @@ ("budget" :> Str(<<57>>)) @@ ("annee" :> Str(<<49>>))>>

\* The quote requests (records 1 to 5) and the portfolio projects (6 to 8).
DevisIds == {id \in DOMAIN Objects : "name" \in DOMAIN Objects[id]}
PortfolioIds == {id \in DOMAIN Objects : "titre" \in DOMAIN Objects[id]}

\* The lists of at most max records of ids, each record at most once.
ListsUpTo(ids, max) ==
    UNION {{list \in [1..n -> ids] :
                \A i, j \in 1..n : list[i] = list[j] => i = j} : n \in 0..max}

RecordListsUpTo(max) == ListsUpTo(DevisIds, max)

RecordLists == RecordListsUpTo(MaxRows)
SortLists == RecordListsUpTo(MaxSortRows)
PortfolioLists == ListsUpTo(PortfolioIds, MaxRows)

\* "", "a", "A", "1"
SearchTerms == {<<>>, <<97>>, <<65>>, <<49>>}

SortableFields == {"name", "budget"}

(***************************************************************************)
(* DataTable (Dashboard.jsx 129-151).                                      *)
(***************************************************************************)
\* item[field]: undefined when the record has no such property.
Get(item, field) == IF field \in DOMAIN item THEN item[field] ELSE Undefined

\* Object.values(item), as a set.
ObjectValues(item) == {item[f] : f \in DOMAIN item}

\* The comparator that reads the direction the wrong way round.
CompareSwapped(a, b, sortField, sortDirection) ==
    LET aValue == Get(a, sortField)
        bValue == Get(b, sortField)
    IN  IF LessThan(aValue, bValue) THEN (IF sortDirection = "asc" THEN 1 ELSE -1)
        ELSE IF LessThan(bValue, aValue) THEN (IF sortDirection = "asc" THEN -1 ELSE 1)
        ELSE 0

\* The comparator handed to sort (133-140).
Compare(a, b, sortField, sortDirection) ==
    LET aValue == Get(a, sortField)
        bValue == Get(b, sortField)
    IN  IF LessThan(aValue, bValue) THEN (IF sortDirection = "asc" THEN -1 ELSE 1)
        ELSE IF LessThan(bValue, aValue) THEN (IF sortDirection = "asc" THEN 1 ELSE -1)
        ELSE 0

\* The permutations of 1..n.
IndexPermutations(n) == Permutations(1..n)

\* The list rearranged by p.
Permute(list, p) == [i \in 1..Len(list) |-> list[p[i]]] \o <<>>

\* The comparator's results on the pairs of elements of list, c[i][j] for
\* list[i] against list[j] (a tuple of tuples: \o <<>> has it computed once).
CompareMatrix(list, sortField, sortDirection) ==
    [i \in 1..Len(list) |->
        [j \in 1..Len(list) |->
            Compare(Objects[list[i]], Objects[list[j]], sortField, sortDirection)] \o <<>>]
    \o <<>>

\* ECMAScript's "consistent comparator" on n elements with results c:
\* comparing equal is symmetric and transitive, before and after are transitive.
ConsistentComparator(c, n) ==
    LET I == 1..n
    IN  /\ \A i \in I : c[i][i] = 0
        /\ \A i, j \in I : c[i][j] = 0 => c[j][i] = 0
        /\ \A i, j, k \in I : c[i][j] = 0 /\ c[j][k] = 0 => c[i][k] = 0
        /\ \A i, j, k \in I : c[i][j] < 0 /\ c[j][k] < 0 => c[i][k] < 0
        /\ \A i, j, k \in I : c[i][j] > 0 /\ c[j][k] > 0 => c[i][k] > 0

\* The stable sort of list under a consistent comparator with results c:
\* an element goes after those that compare before it and those that
\* compare equal to it and precede it in the input.
StableSort(list, c) ==
    LET n == Len(list)
        rank == [i \in 1..n |->
                    1 + Cardinality({j \in 1..n :
                            c[j][i] < 0 \/ (c[j][i] = 0 /\ j < i)})] \o <<>>
    IN  [k \in 1..n |-> list[CHOOSE i \in 1..n : rank[i] = k]] \o <<>>

\* The results [...data].sort(comparator) can have: the stable sort when the
\* comparator is consistent on the list, and an order the engine chooses
\* (any permutation) when it is not.
SortOutcomes(list, sortField, sortDirection) ==
    LET n == Len(list)
        c == CompareMatrix(list, sortField, sortDirection)
    IN  IF ConsistentComparator(c, n)
        THEN {StableSort(list, c)}
        ELSE {Permute(list, p) : p \in IndexPermutations(n)}

\* sortedData for the props (data, sortField, sortDirection) (130-141).
SortedDataOutcomes(list, sortField, sortDirection) ==
    IF sortField = NoField THEN {list} ELSE SortOutcomes(list, sortField, sortDirection)

\* The match that compares with the term as typed.
ItemMatchesExactCase(item, term) ==
    \E value \in ObjectValues(item) :
        StringIncludes(ToLowerCase(JsString(value)), term)

\* A row matches when one of its values, as a lowercased string, contains
\* the lowercased search term (147-149).
ItemMatches(item, term) ==
    LET needle == ToLowerCase(term)
    IN  \E value \in ObjectValues(item) :
            StringIncludes(ToLowerCase(JsString(value)), needle)

\* A filter that shows nothing while the search box is empty.
FilteredDataEmptyOnNoTerm(list, term) ==
    IF term = <<>> THEN <<>>
    ELSE SelectSeq(list, LAMBDA item : ItemMatches(Objects[item], term))

\* A filter whose loop stops one row early.
FilteredDataOffByOne(list, term) ==
    IF term = <<>> THEN list
    ELSE LET kept == SelectSeq(list, LAMBDA item : ItemMatches(Objects[item], term))
         IN  IF kept = <<>> THEN kept ELSE SubSeq(kept, 1, Len(kept) - 1)

\* filteredData for (sortedData, searchTerm) (143-151).
FilteredData(list, term) ==
    IF term = <<>> THEN list
    ELSE SelectSeq(list, LAMBDA item : ItemMatches(Objects[item], term))

\* data.sort(...): the sort applied to the prop itself.
DataSortedInPlace(list, sorted) == sorted

\* The data prop after sortedData was computed: sort works on the copy
\* [...data] (133) and filter returns a new array (146), so the prop is as
\* it was.
DataAfterSort(list, sorted) == list

\* A search box whose render filters the data prop, not sortedData.
SetSearchTermOnInput(term) ==
    /\ searchTerm' = term
    /\ filteredData' = FilteredData(data, term)
    /\ UNCHANGED <<data, sortConfig, sortedData, priceVars, storeVars, formVars, tabVars, otherVars>>

\* The search box: onChange={(e) => setSearchTerm(e.target.value)} (2346),
\* and the render that follows; sortedData is memoized.
SetSearchTerm(term) ==
    /\ searchTerm' = term
    /\ filteredData' = FilteredData(sortedData, term)
    /\ UNCHANGED <<data, sortConfig, sortedData, priceVars, storeVars, formVars, tabVars, otherVars>>

\* A direction that toggles whatever column is clicked.
SortDirectionAnyField(prev, field) ==
    IF prev.direction = "asc" THEN "desc" ELSE "asc"

\* The direction handleSort gives (2179).
SortDirection(prev, field) ==
    IF prev.field = field /\ prev.direction = "asc" THEN "desc" ELSE "asc"

\* A click on a sortable column header: handleSort (2176-2181), and the
\* render that follows.
HandleSort(field) ==
    LET direction == SortDirection(sortConfig, field)
    IN  /\ sortConfig' = [field |-> field, direction |-> direction]
        /\ sortedData' \in SortedDataOutcomes(data, field, direction)
        /\ filteredData' = FilteredData(sortedData', searchTerm)
        /\ data' = DataAfterSort(data, sortedData')
        /\ UNCHANGED <<searchTerm, priceVars, storeVars, formVars, tabVars, otherVars>>

PriceIdle ==
    /\ reservation = EmptyForm
    /\ site = "none"
    /\ price = NotRendered

\* The first render of a DataTable over list: nothing typed in the search
\* box, no column clicked (2136, 2140).  The tab holds the list in its state
\* and hands it to the table with no filter set.
FirstRender(list) ==
    /\ records = list
    /\ data = list
    /\ searchTerm = <<>>
    /\ sortConfig = [field |-> NoField, direction |-> "asc"]
    /\ sortedData \in SortedDataOutcomes(list, NoField, "asc")
    /\ filteredData = FilteredData(sortedData, <<>>)

InitTable ==
    /\ \E list \in RecordLists : FirstRender(list)
    /\ PriceIdle
    /\ StoreIdle
    /\ FormIdle
    /\ TabIdle
    /\ DashIdle
    /\ AuthIdle

NextTable ==
    \/ \E term \in SearchTerms : SetSearchTerm(term)
    \/ \E field \in SortableFields : HandleSort(field)

SpecTable == InitTable /\ [][NextTable]_vars

\* The table with the search box left empty: the columns are clicked only.
InitSort ==
    /\ \E list \in SortLists : FirstRender(list)
    /\ PriceIdle
    /\ StoreIdle
    /\ FormIdle
    /\ TabIdle
    /\ DashIdle
    /\ AuthIdle

NextSort == \E field \in SortableFields : HandleSort(field)

SpecSort == InitSort /\ [][NextSort]_vars

(***************************************************************************)
(* PortfolioTab (Dashboard.jsx 1556-1783): its own filter and sort in      *)
(* front of DataTable, over data.portfolio of the Dashboard, which         *)
(* saveData keeps in localStorage.                                         *)
(***************************************************************************)
\* The value of a string property, and whether the property is truthy.
StringOf(item, field) == item[field].v
TruthyString(item, field) == field \in DOMAIN item /\ item[field].v # <<>>

\* matchesSearch (1687-1691): the term is empty or occurs, up to case, in the
\* titre, the categorie, the localisation (when there is one) or the
\* description.
PortfolioMatchesSearch(portfolio, term) ==
    LET needle == ToLowerCase(term)
        In(field) == StringIncludes(ToLowerCase(StringOf(portfolio, field)), needle)
    IN  \/ term = <<>>
        \/ In("titre")
        \/ In("categorie")
        \/ TruthyString(portfolio, "localisation") /\ In("localisation")
        \/ In("description")

\* filteredPortfolios (1686-1703): the projects that match the search and the
\* category filter, sorted with sortConfig (a[null] is undefined for every
\* record when no column was clicked).
FilteredPortfolios(list, term, fil, cfg) ==
    LET kept == SelectSeq(list, LAMBDA id :
                    /\ PortfolioMatchesSearch(Objects[id], term)
                    /\ fil.categorie = <<>> \/ StringOf(Objects[id], "categorie") = fil.categorie)
    IN  SortOutcomes(kept, cfg.field, cfg.direction)

\* What a render of PortfolioTab can give DataTable and what DataTable makes
\* of it: <<data prop, sortedData, filteredData>> (1772-1778, 130-151).
PortfolioViews(list, term, fil, cfg) ==
    UNION {{<<d, sd, FilteredData(sd, term)>> :
                sd \in SortedDataOutcomes(d, cfg.field, cfg.direction)} :
           d \in FilteredPortfolios(list, term, fil, cfg)}

\* JSON.stringify(data) of a Dashboard data whose portfolio is list (2158).
Stored(list) == [t |-> "json", portfolio |-> list]

PortfolioSortableFields == {"titre", "budget"}
Categories == {<<>>, <<82>>}

\* handleSort that saves the sorted list as the data.
PortfolioHandleSortSaving(field) ==
    LET direction == SortDirection(sortConfig, field)
        cfg == [field |-> field, direction |-> direction]
    IN  /\ sortConfig' = cfg
        /\ \E view \in PortfolioViews(records, searchTerm, filters, cfg) :
               data' = view[1] /\ sortedData' = view[2] /\ filteredData' = view[3]
        /\ records' = sortedData'
        /\ storage' = Stored(sortedData')
        /\ UNCHANGED <<searchTerm, filters, priceVars, formVars, tabVars, otherVars>>

\* The global search box (2346) while PortfolioTab is rendered.
PortfolioSetSearchTerm(term) ==
    /\ searchTerm' = term
    /\ \E view \in PortfolioViews(records, term, filters, sortConfig) :
           data' = view[1] /\ sortedData' = view[2] /\ filteredData' = view[3]
    /\ UNCHANGED <<sortConfig, priceVars, storeVars, formVars, tabVars, otherVars>>

\* handleSort (2176-2181) while PortfolioTab is rendered.
PortfolioHandleSort(field) ==
    LET direction == SortDirection(sortConfig, field)
        cfg == [field |-> field, direction |-> direction]
    IN  /\ sortConfig' = cfg
        /\ \E view \in PortfolioViews(records, searchTerm, filters, cfg) :
               data' = view[1] /\ sortedData' = view[2] /\ filteredData' = view[3]
        /\ UNCHANGED <<searchTerm, priceVars, storeVars, formVars, tabVars, otherVars>>

\* The category select of PortfolioTab: setFilters (1750-1754).
SetCategoryFilter(categorie) ==
    /\ filters' = [categorie |-> categorie]
    /\ \E view \in PortfolioViews(records, searchTerm, filters', sortConfig) :
           data' = view[1] /\ sortedData' = view[2] /\ filteredData' = view[3]
    /\ UNCHANGED <<searchTerm, sortConfig, records, storage, priceVars, formVars, tabVars, otherVars>>

\* PortfolioTab as first rendered over data.portfolio, which is what
\* localStorage held (2143-2153) or initialData with nothing stored.
InitPortfolio ==
    /\ records \in PortfolioLists
    /\ storage \in {Null, Stored(records)}
    /\ filters = NoFilters
    /\ searchTerm = <<>>
    /\ sortConfig = [field |-> NoField, direction |-> "asc"]
    /\ \E view \in PortfolioViews(records, searchTerm, filters, sortConfig) :
           data = view[1] /\ sortedData = view[2] /\ filteredData = view[3]
    /\ PriceIdle
    /\ FormIdle
    /\ TabIdle
    /\ DashIdle
    /\ AuthIdle

NextPortfolio ==
    \/ \E term \in SearchTerms : PortfolioSetSearchTerm(term)
    \/ \E field \in PortfolioSortableFields : PortfolioHandleSort(field)
    \/ \E categorie \in Categories : SetCategoryFilter(categorie)

SpecPortfolio == InitPortfolio /\ [][NextPortfolio]_vars

(***************************************************************************)
(* The create/edit form of ReservationsTab (Dashboard.jsx 811-1035).       *)
(***************************************************************************)
\* At most MaxSubmits submissions pass validation in a run.
MaxSubmits == 2

\* What the form can hold when the user submits it.
FormDrafts ==
    [vehicleType : {"", "Berline"},
     startDate : Dates, startTime : Times, endDate : Dates, endTime : Times,
     driver : BOOLEAN, unlimitedKm : BOOLEAN,
     insurances : {<<>>, <<"Tous risques">>}, equipments : {<<>>, <<"GPS">>},
     name : {"", "Awa"}, email : {"", "a@b.sn"}, phone : {Str(<<>>)},
     pickupLocation : {"", "Dakar"}, dropoffLocation : {"Thies"}, notes : {Str(<<>>)}]

\* The priced fields of a form or row: what calcCarPrice reads.
PricedFields(r) == [f \in DOMAIN EmptyForm |-> r[f]]

\* The modal of the form: creation, or edition of the reservation of id 1.
FormModals ==
    {[isOpen |-> TRUE, type |-> "create-reservation", data |-> Null],
     [isOpen |-> TRUE, type |-> "edit-reservation", data |-> [id |-> 1]]}

\* insuranceOptions and equipmentOptions (856-857).
insuranceOptions == {"Tiers", "Tous risques", "Vol/Incendie"}
equipmentOptions == {"GPS", "Siège bébé", "Wi-Fi"}

\* array.filter(opt => options.includes(opt))
FilterIncluded(array, options) == SelectSeq(array, LAMBDA opt : opt \in options)

\* date_heure.split('T')[0] and date_heure.split('T')[1].substring(0, 5)
SplitDate(s) == <<s.date>>
SplitTime(s) == <<s.time>>

\* The row fetchReservations makes of an item of the response (872-895).
\* address, idNumber, model, paymentMethod and deposit are '' in every row.
MapItem(item) ==
    [id |-> item.id,
     name |-> item.nom_client,
     email |-> item.email,
     phone |-> item.telephone,
     vehicleType |-> item.type_modele_voiture,
     startDate |-> SplitDate(item.date_heure_depart),
     startTime |-> SplitTime(item.date_heure_depart),
     endDate |-> SplitDate(item.date_heure_retour),
     endTime |-> SplitTime(item.date_heure_retour),
     pickupLocation |-> item.lieu_prise_en_charge,
     dropoffLocation |-> item.lieu_restitution,
     driver |-> FALSE,
     unlimitedKm |-> FALSE,
     insurances |-> FilterIncluded(item.options, insuranceOptions),
     equipments |-> FilterIncluded(item.options, equipmentOptions),
     notes |-> IF Truthy(item.commentaires) THEN item.commentaires ELSE Str(<<>>),
     createdAt |-> item.date_heure_depart]

\* result.data.map(...) (872).
MapItems(items) == [i \in 1..Len(items) |-> MapItem(items[i])] \o <<>>

\* A reservation the API holds when the tab is opened.
StoredItem ==
    [id |-> 1, nom_client |-> "Awa", email |-> "a@b.sn", telephone |-> Null,
     type_modele_voiture |-> "Berline",
     date_heure_depart |-> [date |-> 1, time |-> 600],
     date_heure_retour |-> [date |-> 2, time |-> 600],
     lieu_prise_en_charge |-> "Dakar", lieu_restitution |-> "Thies",
     options |-> <<"GPS">>, commentaires |-> Null]

\* The row of StoredItem.
ReloadedRow == MapItem(StoredItem)

\* The lists the API can hold when the tab is opened, and their rows.
StoredLists == {<<>>, <<StoredItem>>}
ReloadedLists == {MapItems(items) : items \in StoredLists}

Toast(type, message) == [type |-> type, message |-> message]

\* The required fields are all filled (912-913).
RequiredFilled(f) ==
    /\ f.name # "" /\ f.email # "" /\ f.vehicleType # ""
    /\ ~Missing(f.startDate) /\ ~Missing(f.startTime)
    /\ ~Missing(f.endDate) /\ ~Missing(f.endTime)
    /\ f.pickupLocation # "" /\ f.dropoffLocation # ""

\* The ordering test that lets equal instants through.
EndBeforeStart(f) ==
    NewDate(f.endDate, f.endTime) < NewDate(f.startDate, f.startTime)

\* endDateTime <= startDateTime (918-920).
EndNotAfterStart(f) ==
    NewDate(f.endDate, f.endTime) <= NewDate(f.startDate, f.startTime)

\* allOptions (926-931).
AllOptions(f) ==
    f.insurances \o f.equipments
        \o (IF f.driver THEN <<"Avec chauffeur">> ELSE <<>>)
        \o (IF f.unlimitedKm THEN <<"Kilométrage illimité">> ELSE <<>>)

\* `${date}T${time}:00`
DateTimeString(date, time) == [date |-> date[1], time |-> time[1]]

\* A payload that also carries the estimate.
PayloadWithPrice(f) ==
    [nom_client |-> f.name,
     email |-> f.email,
     telephone |-> IF Truthy(f.phone) THEN f.phone ELSE Null,
     type_modele_voiture |-> f.vehicleType,
     date_heure_depart |-> DateTimeString(f.startDate, f.startTime),
     date_heure_retour |-> DateTimeString(f.endDate, f.endTime),
     lieu_prise_en_charge |-> f.pickupLocation,
     lieu_restitution |-> f.dropoffLocation,
     options |-> AllOptions(f),
     commentaires |-> IF Truthy(f.notes) THEN f.notes ELSE Null,
     prix_estime |-> calcCarPrice(f)]

\* payload (933-944).
Payload(f) ==
    [nom_client |-> f.name,
     email |-> f.email,
     telephone |-> IF Truthy(f.phone) THEN f.phone ELSE Null,
     type_modele_voiture |-> f.vehicleType,
     date_heure_depart |-> DateTimeString(f.startDate, f.startTime),
     date_heure_retour |-> DateTimeString(f.endDate, f.endTime),
     lieu_prise_en_charge |-> f.pickupLocation,
     lieu_restitution |-> f.dropoffLocation,
     options |-> AllOptions(f),
     commentaires |-> IF Truthy(f.notes) THEN f.notes ELSE Null]

\* A request as fetch sends it, no response yet; live: the ReservationsTab
\* that sent it is still mounted.
NoReply == [t |-> "none"]
Request(method, id, body) ==
    [method |-> method, id |-> id, body |-> body, reply |-> NoReply, live |-> TRUE]

\* The request of a submission (946-962): PUT on the edited reservation,
\* POST otherwise.
SubmitRequest(f, m) ==
    IF m.data # Null
    THEN Request("PUT", m.data.id, Payload(f))
    ELSE Request("POST", 0, Payload(f))

\* The request of fetchReservations (868).
FetchRequest == Request("GET", 0, Null)

\* The sequence without its element at position i.
RemoveAt(seq, i) == SubSeq(seq, 1, i - 1) \o SubSeq(seq, i + 1, Len(seq))

\* The number of submissions sent so far.
SubmitsSent == Cardinality({i \in 1..Len(requests) : requests[i].method \in {"POST", "PUT"}})

\* The render of the detail modal calls calcCarPrice(null) (1433, 1539):
\* reservation.startDate throws (56) and React unmounts the application.
Crashed ==
    /\ currentTab = "reservations" /\ ~loading
    /\ modal.isOpen /\ modal.type = "view-reservation"
    /\ viewReservation = Null

\* ReservationsTab renders its content (1113).
TabShown == currentTab = "reservations" /\ ~loading /\ ~Crashed

\* The form is on screen: the modal is open on it (1160).
FormShown ==
    TabShown /\ modal.isOpen /\ modal.type \in {"create-reservation", "edit-reservation"}

\* handleSubmit up to its first await (909-962).
HandleSubmit ==
    /\ FormShown
    /\ IF ~RequiredFilled(formData)
       THEN /\ toast' = Toast("error", "Veuillez remplir tous les champs obligatoires")
            /\ UNCHANGED <<requests, inflight>>
       ELSE IF EndNotAfterStart(formData)
       THEN /\ toast' = Toast("error", "La date de fin doit être après la date de début")
            /\ UNCHANGED <<requests, inflight>>
       ELSE /\ SubmitsSent < MaxSubmits
            /\ requests' = Append(requests, SubmitRequest(formData, modal))
            /\ inflight' = Append(inflight, SubmitRequest(formData, modal))
            /\ UNCHANGED toast
    /\ UNCHANGED <<formData, modal, priceVars, tableVars, storeVars, tabVars, otherVars>>

\* The ids of the reservations the API holds.
ServerIds == {server[k].id : k \in 1..Len(server)}

\* The id the API gives the next reservation.
NextServerId == IF server = <<>> THEN 1 ELSE 1 + CHOOSE n \in ServerIds : \A m \in ServerIds : m <= n

\* The API handles the request at position i: it stores the body of a POST
\* unchanged under a new id, replaces the reservation a PUT names, removes
\* the one a DELETE names, and answers a GET with the list it holds.
ServerHandle(i) ==
    LET r == inflight[i]
        Reply(x) == [inflight EXCEPT ![i].reply = x]
    IN  /\ r.reply = NoReply
        /\ CASE r.method = "GET" ->
                    /\ inflight' = Reply([t |-> "ok", data |-> server])
                    /\ UNCHANGED server
              [] r.method = "POST" ->
                    /\ server' = Append(server, r.body @@ [id |-> NextServerId])
                    /\ inflight' = Reply([t |-> "ok"])
              [] r.method = "PUT" /\ r.id \in ServerIds ->
                    /\ server' = [k \in 1..Len(server) |->
                                     IF server[k].id = r.id THEN r.body @@ [id |-> r.id]
                                     ELSE server[k]] \o <<>>
                    /\ inflight' = Reply([t |-> "ok"])
              [] r.method = "DELETE" /\ r.id \in ServerIds ->
                    /\ server' = SelectSeq(server, LAMBDA item : item.id # r.id)
                    /\ inflight' = Reply([t |-> "ok"])
              [] OTHER ->
                    /\ inflight' = Reply([t |-> "error"])
                    /\ UNCHANGED server
        /\ UNCHANGED <<loading, viewReservation, currentTab, confirmDialog,
                       formData, modal, toast, requests,
                       priceVars, tableVars, storeVars, otherVars>>

\* The response to a submission is ok (964-976): success toast, reload of
\* the list (865-868), form emptied, modal closed. A tab that was unmounted
\* keeps nothing of what is set in its own state.
SubmitResponseOk(i) ==
    /\ inflight[i].method \in {"POST", "PUT"}
    /\ inflight[i].reply.t = "ok"
    /\ toast' = Toast("success", IF inflight[i].method = "PUT"
                                   THEN "Réservation modifiée" ELSE "Réservation enregistrée")
    /\ requests' = Append(requests, FetchRequest)
    /\ inflight' = Append(RemoveAt(inflight, i), [FetchRequest EXCEPT !.live = inflight[i].live])
    /\ IF inflight[i].live
       THEN loading' = TRUE /\ formData' = EmptyFormData
       ELSE UNCHANGED <<loading, formData>>
    /\ modal' = ClosedModal
    /\ UNCHANGED <<server, viewReservation, currentTab, confirmDialog,
                   priceVars, tableVars, storeVars, otherVars>>

\* The response to a submission is not ok, or the request fails (977-983).
SubmitResponseFailed(i) ==
    /\ inflight[i].method \in {"POST", "PUT"}
    /\ inflight[i].reply.t # "ok"
    /\ toast' = Toast("error", "Erreur réseau")
    /\ inflight' = RemoveAt(inflight, i)
    /\ UNCHANGED <<requests, formData, modal, priceVars, tableVars, storeVars, tabVars, otherVars>>

\* The response to fetchReservations is ok (871-896, 904): the list is
\* replaced and loading ends.
FetchResponseOk(i) ==
    /\ inflight[i].method = "GET"
    /\ inflight[i].reply.t = "ok"
    /\ IF inflight[i].live
       THEN records' = MapItems(inflight[i].reply.data) /\ loading' = FALSE
       ELSE UNCHANGED <<records, loading>>
    /\ inflight' = RemoveAt(inflight, i)
    /\ UNCHANGED <<server, viewReservation, currentTab, confirmDialog,
                   requests, formData, modal, toast, priceVars, tableVars, filters, storage,
                   otherVars>>

\* fetchReservations fails (897-904).
FetchResponseFailed(i) ==
    /\ inflight[i].method = "GET"
    /\ inflight[i].reply.t # "ok"
    /\ toast' = Toast("error", "Impossible de charger les réservations")
    /\ loading' = IF inflight[i].live THEN FALSE ELSE loading
    /\ inflight' = RemoveAt(inflight, i)
    /\ UNCHANGED <<server, viewReservation, currentTab, confirmDialog,
                   requests, formData, modal, priceVars, tableVars, storeVars, otherVars>>

\* The live preview of the form (1409-1416).
PreviewFormPrice ==
    /\ FormShown
    /\ formData.vehicleType # "" /\ ~Missing(formData.startDate) /\ ~Missing(formData.endDate)
    /\ reservation' = PricedFields(formData)
    /\ price' = calcCarPrice(formData)
    /\ site' = "preview"
    /\ UNCHANGED <<tableVars, storeVars, formVars, tabVars, otherVars>>

\* The column 'Prix estimé' renders the row at position i of the list (1080).
RowPrice(i) ==
    /\ TabShown
    /\ reservation' = PricedFields(records[i])
    /\ price' = calcCarPrice(records[i])
    /\ site' = "table"
    /\ UNCHANGED <<tableVars, storeVars, formVars, tabVars, otherVars>>

\* Annuler (1420): closeModal (2171-2173).
CloseModal ==
    /\ TabShown
    /\ modal.isOpen
    /\ modal' = ClosedModal
    /\ UNCHANGED <<formData, toast, requests, inflight, priceVars, tableVars, storeVars, tabVars, otherVars>>

\* ReservationsTab with its list loaded and the form open and filled.
InitForm ==
    /\ formData \in FormDrafts
    /\ modal \in FormModals
    /\ toast = Null
    /\ requests = <<>>
    /\ inflight = <<>>
    /\ server \in StoredLists
    /\ records = MapItems(server)
    /\ loading = FALSE
    /\ viewReservation = Null
    /\ currentTab = "reservations"
    /\ confirmDialog = NoDialog
    /\ filters = NoFilters
    /\ storage = Null
    /\ DashIdle
    /\ AuthIdle
    /\ PriceIdle
    /\ TableIdle

NextForm ==
    \/ HandleSubmit
    \/ \E i \in 1..Len(inflight) : ServerHandle(i)
    \/ \E i \in 1..Len(inflight) : SubmitResponseOk(i)
    \/ \E i \in 1..Len(inflight) : SubmitResponseFailed(i)
    \/ \E i \in 1..Len(inflight) : FetchResponseOk(i)
    \/ \E i \in 1..Len(inflight) : FetchResponseFailed(i)
    \/ PreviewFormPrice
    \/ \E i \in 1..Len(records) : RowPrice(i)
    \/ CloseModal

SpecForm == InitForm /\ [][NextForm]_vars

(***************************************************************************)
(* The Dashboard's data and its copy in localStorage (Dashboard.jsx        *)
(* 2131-2231).  data is an object (a record of its keys) or, after         *)
(* JSON.parse of a text that holds no object, a primitive; the values      *)
(* under its keys are arrays or primitives.                                *)
(***************************************************************************)
\* Array.isArray(x).
IsArray(x) == x.t = "array"

\* x.length throws: x is undefined or null.
Lengthless(x) == x.t \in {"undefined", "null"}

\* {...v}: the own keys of an object; a primitive spreads to nothing.
Spread(v) == IF "t" \in DOMAIN v THEN <<>> ELSE v

\* {...a, ...b}.
Merge(a, b) == Spread(b) @@ Spread(a)

\* d[key] of the Dashboard's data; undefined stands for the TypeError of a
\* read on null as well, both end the render.
DataGet(d, key) == IF "t" \in DOMAIN d THEN Undefined ELSE Get(d, key)

\* JSON.stringify(v) (2158): the text of v.
JsonStringify(v) == [t |-> "json", value |-> v]

\* A text JSON.parse throws on.
Unparsable == [t |-> "text"]

\* JSON.parse(text) succeeds.
Parsable(text) == text.t = "json"

\* JSON.parse(text) of a parsable text.
JsonParse(text) == text.value

\* The most projects the portfolio holds.
MaxProjects == 2
\* The most file reads pending at once.
MaxReads == 1
\* The instants Date.now() returns (1676); two calls can return the same one.
Timestamps == {1, 2}

\* PortfolioTab.formData as constructed (1568-1581), its required fields.
EmptyProject ==
    [titre |-> Str(<<>>), categorie |-> Str(<<>>), description |-> Str(<<>>),
     image_principale |-> Str(<<>>)]

\* What the user types in the project form (1797-1941).
ProjectDrafts ==
    {[titre |-> Str(<<c>>), categorie |-> Str(<<82>>), description |-> Str(<<100>>),
      image_principale |-> Str(<<105>>)] : c \in {97, 98}}

\* The project handleSubmit creates from the form at instant now (1673-1677).
NewPortfolio(f, now) ==
    [date_creation |-> Num(now), id |-> Str(Digits(now))] @@ f

\* A project stored earlier.
StoredProject ==
    NewPortfolio([titre |-> Str(<<97>>), categorie |-> Str(<<82>>),
                  description |-> Str(<<100>>), image_principale |-> Str(<<105>>)], 1)

\* What localStorage holds under STORAGE_KEY when the Dashboard mounts:
\* nothing, a text that is no JSON, or the JSON of some value.
StoredValues ==
    {Null, Unparsable,
     JsonStringify(initialData),
     JsonStringify([initialData EXCEPT !.portfolio = Arr(<<StoredProject>>)]),
     JsonStringify([portfolio |-> Arr(<<>>)]),
     JsonStringify(Null)}

\* The files the user imports: no JSON, an export holding a quote request,
\* an object whose portfolio is a number.
FileContents ==
    {Unparsable,
     JsonStringify([devis |-> Arr(<<[id |-> Num(7)]>>)]),
     JsonStringify([portfolio |-> Num(5)])}

\* The load effect (2143-2153): the data it leaves for a stored value.
LoadedData(saved) ==
    IF saved # Null /\ Parsable(saved) THEN JsonParse(saved) ELSE initialData

\* The toast the load effect leaves (2150).
LoadedToast(saved) ==
    IF saved # Null /\ ~Parsable(saved)
    THEN Toast("error", "Erreur lors du chargement des donnees")
    ELSE Null

\* The render of the current tab throws: HomeTab reads data.devis.length and
\* data.reservations.length (370, 393), DevisTab, ReservationsTab and
\* PortfolioTab call filter on their list (580, 1032, 1686), SettingsTab
\* reads the three lengths (2092-2100).
DashCrashed ==
    LET devis == DataGet(dashboardData, "devis")
        reservations == DataGet(dashboardData, "reservations")
        portfolio == DataGet(dashboardData, "portfolio")
    IN  CASE currentTab = "accueil" -> Lengthless(devis) \/ Lengthless(reservations)
          [] currentTab = "devis" -> ~IsArray(devis)
          [] currentTab = "reservations" -> ~IsArray(reservations)
          [] currentTab = "portfolio" -> ~IsArray(portfolio)
          [] currentTab = "parametres" ->
                Lengthless(devis) \/ Lengthless(reservations) \/ Lengthless(portfolio)
          [] OTHER -> FALSE

(***************************************************************************)
(* ReservationsTab inside the Dashboard: the list, its buttons, the modals *)
(* and the navigation between tabs (Dashboard.jsx 811-1553, 2131-2384).    *)
(***************************************************************************)
\* ReservationsTab is mounted again only while fewer than MaxFetches reloads
\* of the list were asked for.
MaxFetches == 1

\* What the user types in the form.
TabDrafts ==
    {[EmptyFormData EXCEPT !.name = "Awa", !.email = "a@b.sn", !.vehicleType = "Berline",
                           !.startDate = <<1>>, !.startTime = <<600>>,
                           !.endDate = <<2>>, !.endTime = <<600>>,
                           !.pickupLocation = "Dakar", !.dropoffLocation = "Thies"]}

\* The tab content can be clicked: it is rendered and no modal covers it.
TabClickable == TabShown /\ ~modal.isOpen

\* The button 'Nouvelle réservation' (1119): openModal (2167-2169).
OpenCreate ==
    /\ TabClickable
    /\ modal' = [isOpen |-> TRUE, type |-> "create-reservation", data |-> Null]
    /\ UNCHANGED <<formData, toast, requests, inflight, priceVars, tableVars, storeVars,
                   tabVars, otherVars>>

\* handleEdit on the row at position k (995-998).
HandleEdit(k) ==
    /\ TabClickable
    /\ formData' = records[k]
    /\ modal' = [isOpen |-> TRUE, type |-> "edit-reservation", data |-> records[k]]
    /\ UNCHANGED <<toast, requests, inflight, priceVars, tableVars, storeVars,
                   tabVars, otherVars>>

\* handleView on the row at position k (1000-1003).
HandleView(k) ==
    /\ TabClickable
    /\ viewReservation' = records[k]
    /\ modal' = [isOpen |-> TRUE, type |-> "view-reservation", data |-> records[k]]
    /\ UNCHANGED <<server, loading, currentTab, confirmDialog,
                   formData, toast, requests, inflight, priceVars, tableVars, storeVars,
                   otherVars>>

\* The user fills the form (handleChange, 986-993).
FillForm(draft) ==
    /\ FormShown
    /\ formData # draft
    /\ formData' = draft
    /\ UNCHANGED <<modal, toast, requests, inflight, priceVars, tableVars, storeVars,
                   tabVars, otherVars>>

\* The number of times fetchReservations was called.
FetchesSent == Cardinality({i \in 1..Len(requests) : requests[i].method = "GET"})

\* Every pending request belongs to an unmounted tab.
Unmounted(seq) == [i \in 1..Len(seq) |-> [seq[i] EXCEPT !.live = FALSE]] \o <<>>

\* A click in the navigation: setCurrentTab (2329). Leaving ReservationsTab
\* unmounts it; entering it mounts it with its initial state (825-853) and
\* calls fetchReservations (861-863).
SetCurrentTab(tab) ==
    /\ ~Crashed
    /\ ~DashCrashed
    /\ tab # currentTab
    /\ currentTab' = tab
    /\ IF tab = "reservations"
       THEN /\ FetchesSent < MaxFetches
            /\ records' = <<>>
            /\ loading' = TRUE
            /\ formData' = EmptyFormData
            /\ viewReservation' = Null
            /\ requests' = Append(requests, FetchRequest)
            /\ inflight' = Append(inflight, FetchRequest)
       ELSE /\ inflight' = Unmounted(inflight)
            /\ formData' = IF tab = "portfolio" THEN EmptyProject ELSE formData
            /\ UNCHANGED <<records, loading, viewReservation, requests>>
    /\ UNCHANGED <<server, confirmDialog, modal, toast, filters, storage,
                   priceVars, tableVars, otherVars>>

\* The detail modal renders the price of viewReservation (1539).
ViewDetailPrice ==
    /\ TabShown
    /\ modal.isOpen /\ modal.type = "view-reservation"
    /\ reservation' = PricedFields(viewReservation)
    /\ price' = calcCarPrice(viewReservation)
    /\ site' = "detail"
    /\ UNCHANGED <<tableVars, storeVars, formVars, tabVars, otherVars>>

\* ReservationsTab mounted with its list loaded, no modal open. In NextTab
\* every request reaches the API and its response reaches the page.
InitTab ==
    /\ server \in StoredLists
    /\ records = MapItems(server)
    /\ loading = FALSE
    /\ viewReservation = Null
    /\ currentTab = "reservations"
    /\ confirmDialog = NoDialog
    /\ filters = NoFilters
    /\ storage = Null
    /\ FormIdle
    /\ DashIdle
    /\ AuthIdle
    /\ PriceIdle
    /\ TableIdle

NextTab ==
    \/ \E tab \in {"reservations", "portfolio"} : SetCurrentTab(tab)
    \/ OpenCreate
    \/ \E k \in 1..Len(records) : HandleEdit(k)
    \/ \E k \in 1..Len(records) : HandleView(k)
    \/ \E draft \in TabDrafts : FillForm(draft)
    \/ CloseModal
    \/ HandleSubmit
    \/ \E i \in 1..Len(inflight) : ServerHandle(i)
    \/ \E i \in 1..Len(inflight) : SubmitResponseOk(i)
    \/ \E i \in 1..Len(inflight) : FetchResponseOk(i)
    \/ ViewDetailPrice

SpecTab == InitTab /\ [][NextTab]_vars

\* ReservationsTab while it stays mounted: the operations on the list and
\* the reloads that follow them.
NextRefresh ==
    \/ OpenCreate
    \/ \E k \in 1..Len(records) : HandleEdit(k)
    \/ \E draft \in TabDrafts : FillForm(draft)
    \/ CloseModal
    \/ HandleSubmit
    \/ \E i \in 1..Len(inflight) : ServerHandle(i)
    \/ \E i \in 1..Len(inflight) : SubmitResponseOk(i)
    \/ \E i \in 1..Len(inflight) : FetchResponseOk(i)

SpecRefresh == InitTab /\ [][NextRefresh]_vars

(***************************************************************************)
(* PortfolioTab's create, edit and delete (Dashboard.jsx 1556-2056),       *)
(* SettingsTab's import and reset (2058-2128, 2200-2231) over the          *)
(* Dashboard's data.  formData is PortfolioTab's while that tab is shown.  *)
(***************************************************************************)
\* data.portfolio as PortfolioTab reads it (no project while it is no array).
PortfolioList ==
    LET portfolio == DataGet(dashboardData, "portfolio")
    IN  IF IsArray(portfolio) THEN portfolio.v ELSE <<>>

PortfolioShown == currentTab = "portfolio" /\ ~DashCrashed
SettingsShown == currentTab = "parametres" /\ ~DashCrashed

\* The project form is on screen (1785).
ProjectFormShown ==
    /\ PortfolioShown
    /\ modal.isOpen /\ modal.type \in {"create-portfolio", "edit-portfolio"}
    /\ ~confirmDialog.isOpen

\* The buttons of PortfolioTab can be clicked: no overlay covers them.
PortfolioClickable == PortfolioShown /\ ~modal.isOpen /\ ~confirmDialog.isOpen

\* The buttons of SettingsTab can be clicked.
SettingsClickable == SettingsShown /\ ~confirmDialog.isOpen

\* saveData without its write to localStorage.
SaveDataInMemory(newData) ==
    /\ dashboardData' = newData
    /\ storage' = storage

\* saveData (2156-2159).
SaveData(newData) ==
    /\ dashboardData' = newData
    /\ storage' = JsonStringify(newData)

\* "Nouveau projet" (1746).
PortfolioOpenCreate ==
    /\ PortfolioClickable
    /\ modal' = [isOpen |-> TRUE, type |-> "create-portfolio", data |-> Null]
    /\ UNCHANGED <<formData, toast, requests, inflight, priceVars, tableVars, storeVars,
                   tabVars, otherVars>>

\* handleEdit (1592-1600) on the k-th project.
PortfolioHandleEdit(k) ==
    /\ PortfolioClickable
    /\ formData' = PortfolioList[k]
    /\ modal' = [isOpen |-> TRUE, type |-> "edit-portfolio", data |-> PortfolioList[k]]
    /\ UNCHANGED <<toast, requests, inflight, priceVars, tableVars, storeVars,
                   tabVars, otherVars>>

\* The user fills the project form (1797-1941).
PortfolioFillForm(draft) ==
    /\ ProjectFormShown
    /\ formData' = draft @@ formData
    /\ formData' # formData
    /\ UNCHANGED <<modal, toast, requests, inflight, priceVars, tableVars, storeVars,
                   tabVars, otherVars>>

\* "Annuler" of the project form (1949).
PortfolioCloseModal ==
    /\ ProjectFormShown
    /\ modal' = ClosedModal
    /\ UNCHANGED <<formData, toast, requests, inflight, priceVars, tableVars, storeVars,
                   tabVars, otherVars>>

\* The edit branch's list (1664-1668): the projects whose id is modal.data.id
\* are replaced by the form with that id and date_creation.
EditedPortfolios(list, f, target) ==
    [i \in 1..Len(list) |->
        IF list[i].id = target.id
        THEN [id |-> target.id, date_creation |-> target.date_creation] @@ f
        ELSE list[i]] \o <<>>

\* handleSubmit of PortfolioTab (1648-1683).
PortfolioHandleSubmit ==
    /\ ProjectFormShown
    /\ IF ~Truthy(formData.titre) \/ ~Truthy(formData.categorie)
           \/ ~Truthy(formData.description)
       THEN /\ toast' = Toast("error", "Veuillez remplir tous les champs obligatoires")
            /\ UNCHANGED <<modal, dashboardData, storage>>
       ELSE IF ~Truthy(formData.image_principale)
       THEN /\ toast' = Toast("error", "L'image principale est obligatoire")
            /\ UNCHANGED <<modal, dashboardData, storage>>
       ELSE IF modal.type = "edit-portfolio" /\ modal.data # Null
       THEN /\ SaveData([portfolio |->
                            Arr(EditedPortfolios(PortfolioList, formData, modal.data))]
                        @@ dashboardData)
            /\ toast' = Toast("success", "Portfolio modifie avec succes")
            /\ modal' = ClosedModal
       ELSE /\ Len(PortfolioList) < MaxProjects
            /\ \E now \in Timestamps :
                  SaveData([portfolio |->
                               Arr(Append(PortfolioList, NewPortfolio(formData, now)))]
                           @@ dashboardData)
            /\ toast' = Toast("success", "Projet portfolio enregistre")
            /\ modal' = ClosedModal
    /\ UNCHANGED <<formData, requests, inflight, records, filters, reads, priceVars,
                   tableVars, tabVars, authVars>>

\* handleDelete (1612-1625) on the k-th project: the dialog's onConfirm keeps
\* the data of the render that built it.
PortfolioHandleDelete(k) ==
    /\ PortfolioClickable
    /\ confirmDialog' = [isOpen |-> TRUE, onConfirm |-> "delete-portfolio",
                         data |-> dashboardData, portfolio |-> PortfolioList[k]]
    /\ UNCHANGED <<server, loading, viewReservation, currentTab, formVars, priceVars,
                   tableVars, storeVars, otherVars>>

\* resetData (2219-2231).
ResetData ==
    /\ SettingsClickable
    /\ confirmDialog' = [isOpen |-> TRUE, onConfirm |-> "reset"]
    /\ UNCHANGED <<server, loading, viewReservation, currentTab, formVars, priceVars,
                   tableVars, storeVars, otherVars>>

\* The list the delete confirmation saves (1618).
WithoutProject(list, portfolio) == SelectSeq(list, LAMBDA p : p.id # portfolio.id)

\* The dialog's confirm button (120): onConfirm of the delete (1617-1622) or
\* of the reset (2223-2227).
ConfirmDialogConfirm ==
    /\ confirmDialog.isOpen
    /\ ~DashCrashed
    /\ IF confirmDialog.onConfirm = "delete-portfolio"
       THEN /\ SaveData([portfolio |->
                            Arr(WithoutProject(confirmDialog.data.portfolio.v,
                                               confirmDialog.portfolio))]
                        @@ confirmDialog.data)
            /\ toast' = Toast("success", "Projet supprime")
       ELSE /\ SaveData(initialData)
            /\ toast' = Toast("success", "Donnees reinitialisees")
    /\ confirmDialog' = NoDialog
    /\ UNCHANGED <<server, loading, viewReservation, currentTab, formData, modal,
                   requests, inflight, records, filters, reads, priceVars, tableVars,
                   authVars>>

\* The dialog's cancel button (117).
ConfirmDialogCancel ==
    /\ confirmDialog.isOpen
    /\ ~DashCrashed
    /\ confirmDialog' = NoDialog
    /\ UNCHANGED <<server, loading, viewReservation, currentTab, formVars, priceVars,
                   tableVars, storeVars, otherVars>>

\* handleFileImport (2200-2216) up to readAsText: the reader's onload keeps
\* the data of the render that built it.
HandleFileImport(file) ==
    /\ SettingsClickable
    /\ Len(reads) < MaxReads
    /\ reads' = Append(reads, [data |-> dashboardData, content |-> file])
    /\ UNCHANGED <<dashboardData, formVars, priceVars, tableVars, storeVars, tabVars,
                   authVars>>

\* reader.onload of the i-th pending read (2205-2213).
ReaderOnload(i) ==
    /\ reads' = RemoveAt(reads, i)
    /\ IF Parsable(reads[i].content)
       THEN /\ SaveData(Merge(reads[i].data, JsonParse(reads[i].content)))
            /\ toast' = Toast("success", "Import reussi")
       ELSE /\ toast' = Toast("error", "Erreur lors de l'import")
            /\ UNCHANGED <<dashboardData, storage>>
    /\ UNCHANGED <<formData, modal, requests, inflight, records, filters, priceVars,
                   tableVars, tabVars, authVars>>

\* The Dashboard after its load effect (2143-2153) ran over what localStorage
\* held, the initial tab shown.
InitDashboard ==
    /\ storage \in StoredValues
    /\ dashboardData = LoadedData(storage)
    /\ toast = LoadedToast(storage)
    /\ reads = <<>>
    /\ formData = EmptyFormData
    /\ modal = ClosedModal
    /\ requests = <<>>
    /\ inflight = <<>>
    /\ records = <<>>
    /\ filters = NoFilters
    /\ PriceIdle
    /\ TableIdle
    /\ TabIdle
    /\ AuthIdle

\* The navigation is used while no modal and no dialog is open.
NextDashboard ==
    \/ \E tab \in {"portfolio", "parametres"} :
          ~modal.isOpen /\ ~confirmDialog.isOpen /\ SetCurrentTab(tab)
    \/ PortfolioOpenCreate
    \/ \E k \in 1..Len(PortfolioList) : PortfolioHandleEdit(k)
    \/ \E draft \in ProjectDrafts : PortfolioFillForm(draft)
    \/ PortfolioCloseModal
    \/ PortfolioHandleSubmit
    \/ \E k \in 1..Len(PortfolioList) : PortfolioHandleDelete(k)
    \/ ResetData
    \/ ConfirmDialogConfirm
    \/ ConfirmDialogCancel
    \/ \E file \in FileContents : HandleFileImport(file)
    \/ \E i \in 1..Len(reads) : ReaderOnload(i)

SpecDashboard == InitDashboard /\ [][NextDashboard]_vars

(***************************************************************************)
(* The login screen (Authentification.jsx 22-135).  authFormData is its    *)
(* formData, authToast its toast, authStorage the keys it writes in        *)
(* localStorage, location the page's path.  loginRequests is the log of    *)
(* the requests sent, each with the reply it got; loginInflight holds the  *)
(* positions in the log of the requests not answered yet.                  *)
(***************************************************************************)
\* At most MaxLogins login requests are sent in a run.
MaxLogins == 2

\* A character \S matches.
NonSpace(c) == c \notin {9, 10, 11, 12, 13, 32}

\* /\S+@\S+\.\S+/.test(s) (64): somewhere in s, a non-space, an "@", one
\* or more non-spaces, a "." and a non-space.
EmailPattern(s) ==
    \E a \in 2..Len(s) : \E d \in (a + 2)..(Len(s) - 1) :
        /\ NonSpace(s[a - 1])
        /\ s[a] = 64
        /\ \A k \in (a + 1)..(d - 1) : NonSpace(s[k])
        /\ s[d] = 46
        /\ NonSpace(s[d + 1])

\* validateForm without its test of the password's length.
NewErrorsAnyLength(f) ==
    (IF f.email = <<>> \/ ~EmailPattern(f.email) THEN {"email"} ELSE {})
        \cup (IF f.password = <<>> THEN {"password"} ELSE {})

\* newErrors of validateForm (59-76): the fields it gives a message.
NewErrors(f) ==
    (IF f.email = <<>> \/ ~EmailPattern(f.email) THEN {"email"} ELSE {})
        \cup (IF f.password = <<>> \/ Len(f.password) < 6 THEN {"password"} ELSE {})

\* What the user types: no email, "a@b", "a@b.c"; no password, "12345",
\* "123456".
EmailInputs == {<<>>, <<97, 64, 98>>, <<97, 64, 98, 46, 99>>}
PasswordInputs == {<<>>, <<49, 50, 51, 52, 53>>, <<49, 50, 51, 52, 53, 54>>}

\* The body of the login request (90-93).
LoginBody(f) == [email |-> f.email, mot_de_passe |-> f.password]

\* How a login request ends: fetch rejects, or a response arrives, ok or
\* not, whose body is JSON (an object with or without a token, or null) or
\* is not.
LoginReplies ==
    {[t |-> "rejected"]}
        \cup {[t |-> "response", ok |-> ok, body |-> body] :
                ok \in BOOLEAN,
                body \in {Unparsable,
                          JsonStringify([user |-> Obj, token |-> Str(<<116>>)]),
                          JsonStringify([user |-> Obj]),
                          JsonStringify([error |-> Str(<<101>>)]),
                          JsonStringify(Null)}}

\* The try block reaches its writes (96-109): the response came, its body
\* parsed, response.ok is true and data.user could be read.
LoginSucceeded(reply) ==
    /\ reply.t = "response"
    /\ Parsable(reply.body)
    /\ reply.ok
    /\ JsonParse(reply.body) # Null

\* localStorage.setItem(key, value).
SetItem(store, key, value) ==
    {e \in store : e.key # key} \cup {[key |-> key, value |-> value]}

\* The three writes of a successful login (103-108); now is Date.now().
LoginWrites(store, body, now) ==
    LET authToken == IF Truthy(Get(body, "token")) THEN body.token ELSE Str(Digits(now))
    IN  SetItem(SetItem(SetItem(store, "user", JsonStringify(Get(body, "user"))),
                        "isAuthenticated", Str(<<116, 114, 117, 101>>)),
                "authToken", authToken)

\* The login screen is on the page.
OnLoginPage == location = "/"

\* handleChange (45-57); the inputs are disabled while isLoading (170, 185).
AuthHandleChange(name, value) ==
    /\ OnLoginPage
    /\ ~isLoading
    /\ authFormData[name] # value
    /\ authFormData' = [authFormData EXCEPT ![name] = value]
    /\ errors' = errors \ {name}
    /\ UNCHANGED <<isLoading, authToast, redirectToDashboard, redirectTimer, location,
                   authStorage, loginRequests, loginInflight>>
    /\ UNCHANGED <<priceVars, tableVars, storeVars, formVars, tabVars, dashVars>>

\* handleSubmit up to the call of fetch (78-94); the submit button is
\* disabled while isLoading (195).
AuthHandleSubmit ==
    /\ OnLoginPage
    /\ ~isLoading
    /\ errors' = NewErrors(authFormData)
    /\ IF NewErrors(authFormData) # {}
       THEN /\ authToast' = Toast("error", "Veuillez corriger les erreurs du formulaire")
            /\ UNCHANGED <<isLoading, loginRequests, loginInflight>>
       ELSE /\ Len(loginRequests) < MaxLogins
            /\ isLoading' = TRUE
            /\ loginRequests' = Append(loginRequests,
                                       [body |-> LoginBody(authFormData), reply |-> NoReply])
            /\ loginInflight' = Append(loginInflight, Len(loginRequests) + 1)
            /\ UNCHANGED authToast
    /\ UNCHANGED <<authFormData, redirectToDashboard, redirectTimer, location, authStorage>>
    /\ UNCHANGED <<priceVars, tableVars, storeVars, formVars, tabVars, dashVars>>

\* handleSubmit from the end of fetch (96-134) for the i-th pending request,
\* which ends as reply.  onLogin is the parent's function.
LoginResponse(i, reply) ==
    /\ OnLoginPage
    /\ loginRequests' = [loginRequests EXCEPT ![loginInflight[i]].reply = reply]
    /\ loginInflight' = RemoveAt(loginInflight, i)
    /\ IF LoginSucceeded(reply)
       THEN /\ \E now \in Timestamps :
                  authStorage' = LoginWrites(authStorage, JsonParse(reply.body), now)
            /\ authToast' = Toast("success", "Connexion reussie ! Redirection en cours...")
            /\ redirectTimer' = TRUE
            /\ UNCHANGED errors
       ELSE /\ errors' = {"submit"}
            /\ authToast' = Toast("error", "Erreur de connexion")
            /\ UNCHANGED <<authStorage, redirectTimer>>
    /\ isLoading' = FALSE
    /\ UNCHANGED <<authFormData, redirectToDashboard, location>>
    /\ UNCHANGED <<priceVars, tableVars, storeVars, formVars, tabVars, dashVars>>

\* The timer set on success fires after 1500 ms (124-126).
RedirectTimerFires ==
    /\ OnLoginPage
    /\ redirectTimer
    /\ redirectTimer' = FALSE
    /\ redirectToDashboard' = TRUE
    /\ UNCHANGED <<authFormData, errors, isLoading, authToast, location, authStorage,
                   loginRequests, loginInflight>>
    /\ UNCHANGED <<priceVars, tableVars, storeVars, formVars, tabVars, dashVars>>

\* The redirect effect (38-43).
RedirectEffect ==
    /\ OnLoginPage
    /\ redirectToDashboard
    /\ location' = "/dashboard"
    /\ UNCHANGED <<authFormData, errors, isLoading, authToast, redirectToDashboard,
                   redirectTimer, authStorage, loginRequests, loginInflight>>
    /\ UNCHANGED <<priceVars, tableVars, storeVars, formVars, tabVars, dashVars>>

\* The login screen as constructed.
InitAuth ==
    /\ PriceIdle
    /\ TableIdle
    /\ records = <<>>
    /\ StoreIdle
    /\ FormIdle
    /\ TabIdle
    /\ DashIdle
    /\ AuthIdle

NextAuth ==
    \/ \E value \in EmailInputs : AuthHandleChange("email", value)
    \/ \E value \in PasswordInputs : AuthHandleChange("password", value)
    \/ AuthHandleSubmit
    \/ \E i \in 1..Len(loginInflight) : \E reply \in LoginReplies : LoginResponse(i, reply)
    \/ RedirectTimerFires
    \/ RedirectEffect

SpecAuth == InitAuth /\ [][NextAuth]_vars

(***************************************************************************)
(* Claims about calcCarPrice, checked under Spec.                          *)
(***************************************************************************)
\* The per-day rate the specification gives a vehicle type.
SpecBaseRate(vehicleType) ==
    CASE vehicleType = "Citadine" -> 80
      [] vehicleType = "Berline" -> 120
      [] vehicleType = "SUV/4x4" -> 180
      [] vehicleType = "Utilitaire" -> 100
      [] vehicleType = "Minibus" -> 200
      [] OTHER -> 120

\* The four date and time fields are all present.
Complete(r) ==
    r.startDate # <<>> /\ r.startTime # <<>> /\ r.endDate # <<>> /\ r.endTime # <<>>

\* end instant - start instant of a complete reservation, in minutes.
ElapsedMinutes(r) ==
    (r.endDate[1] - r.startDate[1]) * 1440 + (r.endTime[1] - r.startTime[1])

\* The per-day amount the specification states: base rate plus surcharges.
SpecPerDay(r) ==
    SpecBaseRate(r.vehicleType)
    + (IF r.driver THEN 50 ELSE 0)
    + (IF r.unlimitedKm THEN 30 ELSE 0)
    + (IF \E i \in DOMAIN r.insurances : r.insurances[i] = "Tous risques" THEN 25 ELSE 0)
    + 10 * Len(r.equipments)

Rendered == site # "none"

\* C1: for every reservation whose four date and time fields are present,
\* calcCarPrice returns days * (base rate of the vehicle class + 50 with a
\* driver + 30 with unlimited mileage + 25 with 'Tous risques' + 10 per
\* equipment), days being the computed day count.
C1_PriceFormula ==
    Rendered /\ Complete(reservation)
        => price = Num(Days(reservation) * SpecPerDay(reservation))

\* C1 restricted to the vehicle types that are not the name of a property
\* inherited from Object.prototype: there the formula holds.
C1_PriceFormulaOwnKeys ==
    Rendered /\ Complete(reservation) /\ reservation.vehicleType \notin ObjectPrototypeKeys
        => price = Num(Days(reservation) * SpecPerDay(reservation))

\* The two examples of the specification are reached: 610 and 120.
C1_Example610 ==
    /\ site = "preview"
    /\ reservation = [vehicleType |-> "SUV/4x4", startDate |-> <<1>>, startTime |-> <<600>>,
                      endDate |-> <<2>>, endTime |-> <<601>>, driver |-> TRUE,
                      unlimitedKm |-> TRUE, insurances |-> <<"Tous risques">>,
                      equipments |-> <<"GPS", "Wi-Fi">>]
    /\ price = Num(610)

C1_Example120 ==
    /\ site = "table"
    /\ reservation = [vehicleType |-> "Berline", startDate |-> <<1>>, startTime |-> <<600>>,
                      endDate |-> <<2>>, endTime |-> <<600>>, driver |-> FALSE,
                      unlimitedKm |-> FALSE, insurances |-> <<>>, equipments |-> <<>>]
    /\ price = Num(120)

\* C2: whatever the reservation, the price shown in the table, in the
\* detail view and in the live preview is a number greater than or equal to 0.
C2_PriceNonNegative ==
    Rendered => price.t = "number" /\ price.v >= 0

\* C3: for every complete reservation whose end instant is not after its
\* start instant, calcCarPrice returns exactly 0.
C3_ZeroWhenEndNotAfterStart ==
    Rendered /\ Complete(reservation) /\ ElapsedMinutes(reservation) <= 0
        => price = Num(0)

\* C4: if one of startDate, startTime, endDate, endTime is missing,
\* calcCarPrice returns 0, whatever the vehicle type and the options.
C4_IncompleteGivesZero ==
    Rendered /\ ~Complete(reservation) => price = Num(0)

\* C4's case: the preview of a form with a driver and equipment whose
\* times are still empty shows 0.
C4_Witness ==
    /\ site = "preview"
    /\ reservation.vehicleType = "Minibus"
    /\ reservation.startDate = <<1>> /\ reservation.endDate = <<2>>
    /\ reservation.startTime = <<600>> /\ reservation.endTime = <<>>
    /\ reservation.driver /\ Len(reservation.equipments) = 2
    /\ price = Num(0)

\* C5: the base rate calcCarPrice uses is 80, 120, 180, 100, 200 for the five
\* vehicle classes and 120 for every other vehicleType value, and pricing
\* never fails on an unrecognized one.
C5_BaseRateTable ==
    Rendered /\ Complete(reservation)
        => /\ BasePrice(reservation) = Num(SpecBaseRate(reservation.vehicleType))
           /\ price.t = "number"

\* C5 restricted to the vehicle types that name no inherited property.
C5_BaseRateTableOwnKeys ==
    Rendered /\ Complete(reservation) /\ reservation.vehicleType \notin ObjectPrototypeKeys
        => /\ BasePrice(reservation) = Num(SpecBaseRate(reservation.vehicleType))
           /\ price.t = "number"

\* C6: the day count is the smallest integer not below
\* (end instant - start instant) / 24h, and it is the count that is billed.
C6_DayCountIsCeiling ==
    Rendered /\ Complete(reservation)
        => LET n == Days(reservation)
               elapsed == ElapsedMinutes(reservation)
           IN  /\ n * 1440 >= elapsed
               /\ (n - 1) * 1440 < elapsed
               /\ reservation.vehicleType = "Berline" /\ SpecPerDay(reservation) = 120
                    => price = Num(120 * n)

\* C6's case: a rental of 24h01 is billed two days.
C6_Witness ==
    /\ site = "detail"
    /\ reservation = [vehicleType |-> "Berline", startDate |-> <<1>>, startTime |-> <<600>>,
                      endDate |-> <<2>>, endTime |-> <<601>>, driver |-> FALSE,
                      unlimitedKm |-> FALSE, insurances |-> <<>>, equipments |-> <<>>]
    /\ price = Num(240)

\* A rental of one minute is billed one full day.
C6_OneMinute ==
    /\ site = "table"
    /\ reservation = [vehicleType |-> "Berline", startDate |-> <<1>>, startTime |-> <<600>>,
                      endDate |-> <<1>>, endTime |-> <<601>>, driver |-> FALSE,
                      unlimitedKm |-> FALSE, insurances |-> <<>>, equipments |-> <<>>]
    /\ price = Num(120)

(***************************************************************************)
(* Claims about DataTable, checked under SpecTable and SpecSort.           *)
(***************************************************************************)
\* Two code units are the same character up to the case of a letter.
SameIgnoringCase(c, d) ==
    \/ c = d
    \/ c \in 65..90 /\ d = c + 32
    \/ d \in 65..90 /\ c = d + 32

\* Some field of the record, as a string, contains term up to case.
SpecMatches(item, term) ==
    \E f \in DOMAIN item :
        LET s == JsString(item[f])
        IN  \E i \in 0..(Len(s) - Len(term)) :
                \A k \in 1..Len(term) : SameIgnoringCase(s[i + k], term[k])

\* The records of list that satisfy Keep(_), in the order of list.
Restrict(list, Keep(_)) == SelectSeq(list, Keep)

\* C7: with a non-empty search term and no sort field, the view holds
\* exactly the input records one of whose fields contains the term up to
\* case, in input order; the upper-cased and the lower-cased term give the
\* same view; the view is empty when no record matches.
C7_FilterWithoutSort ==
    sortConfig.field = NoField /\ searchTerm # <<>>
        => /\ filteredData = Restrict(data, LAMBDA id : SpecMatches(Objects[id], searchTerm))
           /\ FilteredData(sortedData, ToUpperCase(searchTerm)) = filteredData
           /\ FilteredData(sortedData, ToLowerCase(searchTerm)) = filteredData
           /\ (\A i \in 1..Len(data) : ~SpecMatches(Objects[data[i]], searchTerm))
                  => filteredData = <<>>

\* The term "A" typed over an unsorted list keeps some records (whose names
\* hold "a") and drops others.
C7_Witness ==
    /\ sortConfig.field = NoField
    /\ searchTerm = <<65>>
    /\ filteredData # <<>>
    /\ Len(filteredData) < Len(data)

\* The term "1" typed over an unsorted list that holds no 1 empties the view.
C7_EmptyView ==
    /\ sortConfig.field = NoField
    /\ searchTerm = <<49>>
    /\ data # <<>>
    /\ filteredData = <<>>

\* The record at position i of the view has the sort field.
HasSortField(i) == sortConfig.field \in DOMAIN Objects[filteredData[i]]

\* C8: in the view sorted by a field, the records lacking the field come
\* before all records having it when ascending and after them when descending.
C8_MissingFieldRankedLowest ==
    sortConfig.field # NoField
        => \A i, j \in 1..Len(filteredData) :
               i < j => IF sortConfig.direction = "asc"
                        THEN ~(HasSortField(i) /\ ~HasSortField(j))
                        ELSE ~(~HasSortField(i) /\ HasSortField(j))

\* The sort value of the record at position i of the view.
SortValue(i) == Get(Objects[filteredData[i]], sortConfig.field)

\* Every record of the input has the sort field.
AllHaveSortField == \A i \in 1..Len(data) : sortConfig.field \in DOMAIN Objects[data[i]]

\* The order C9 states: numeric for two numbers, lexicographic on the
\* strings of the values in every other case.
SpecBefore(x, y) ==
    IF x.t = "number" /\ y.t = "number" THEN x.v < y.v
    ELSE StringLess(JsString(x), JsString(y))

NumericValue(x) ==
    CASE x.t = "number" -> x.v
      [] x.t = "string" ->
            IF \A k \in 1..Len(x.v) : x.v[k] \in 48..57 THEN DigitsValue(x.v) ELSE -1
      [] x.t = "null" -> 0
      [] x.t = "boolean" -> IF x.v THEN 1 ELSE 0
      [] OTHER -> -1

\* The order the comparator applies: two strings by code units; otherwise
\* by the numbers the values stand for, and no order when one stands for none.
AmendedBefore(x, y) ==
    IF x.t = "string" /\ y.t = "string" THEN StringLess(x.v, y.v)
    ELSE NumericValue(x) >= 0 /\ NumericValue(y) >= 0 /\ NumericValue(x) < NumericValue(y)

\* The comparisons of the input under AmendedBefore form an order: being
\* before is transitive and being unordered is transitive.
AmendedConsistent ==
    \A i, j, k \in 1..Len(data) :
        LET v(n) == Get(Objects[data[n]], sortConfig.field)
            Unordered(x, y) == ~AmendedBefore(x, y) /\ ~AmendedBefore(y, x)
        IN  /\ AmendedBefore(v(i), v(j)) /\ AmendedBefore(v(j), v(k)) => AmendedBefore(v(i), v(k))
            /\ Unordered(v(i), v(j)) /\ Unordered(v(j), v(k)) => Unordered(v(i), v(k))

C10_StableSort ==
    sortConfig.field # NoField
        => \A a, b \in DOMAIN Objects :
               a # b /\ Get(Objects[a], sortConfig.field) = Get(Objects[b], sortConfig.field)
                   => Restrict(filteredData, LAMBDA id : id \in {a, b})
                          = Restrict(data, LAMBDA id : id \in {a, b})

\* C10 on the inputs whose comparisons form an order: there the sort is stable.
C10_StableWhenConsistent ==
    sortConfig.field # NoField /\ AmendedConsistent
        => \A a, b \in DOMAIN Objects :
               a # b /\ Get(Objects[a], sortConfig.field) = Get(Objects[b], sortConfig.field)
                   => Restrict(filteredData, LAMBDA id : id \in {a, b})
                          = Restrict(data, LAMBDA id : id \in {a, b})

\* The list in reverse order.
Reverse(list) == [i \in 1..Len(list) |-> list[Len(list) + 1 - i]]

\* No two records of the input have the same value of the sort field.
DistinctSortValues ==
    \A i, j \in 1..Len(data) :
        i # j => Get(Objects[data[i]], sortConfig.field) # Get(Objects[data[j]], sortConfig.field)

\* A click that turns the ascending view of a field into its descending
\* view, the search term staying as it is.
AscToDescStep ==
    /\ sortConfig.field # NoField
    /\ sortConfig.direction = "asc"
    /\ sortConfig' = [field |-> sortConfig.field, direction |-> "desc"]
    /\ searchTerm' = searchTerm

\* C11: over an input with no two equal values of the sort field, the
\* descending view is the reverse of the ascending view of the same field
\* and search term.
C11_DescIsReverseOfAsc ==
    [][AscToDescStep /\ DistinctSortValues => filteredData' = Reverse(filteredData)]_vars

\* C11 on the inputs where every record has the sort field: there the
\* descending view is the reverse of the ascending one.
C11_ReverseWhenAllHaveField ==
    [][AscToDescStep /\ DistinctSortValues /\ AllHaveSortField
           => filteredData' = Reverse(filteredData)]_vars

\* C12: with an empty search term and no sort field the view is the input:
\* the same records in the same order.
C12_IdentityView ==
    sortConfig.field = NoField /\ searchTerm = <<>> => filteredData = data

\* The first render of a list of MaxRows records shows them all, in order.
C12_Witness ==
    /\ sortConfig.field = NoField
    /\ searchTerm = <<>>
    /\ Len(data) = MaxRows
    /\ filteredData = data

\* C13: the view is the subsequence of the sorted list (the view of the same
\* sort field and direction with an empty search term) made of the records
\* that match the search term, and the sorted list is a sort of the input.
C13_SortThenFilter ==
    /\ sortedData \in SortedDataOutcomes(data, sortConfig.field, sortConfig.direction)
    /\ filteredData =
          IF searchTerm = <<>> THEN sortedData
          ELSE Restrict(sortedData, LAMBDA id : SpecMatches(Objects[id], searchTerm))

\* A view that is sorted into another order than the input and filtered to
\* fewer rows than the input.
C13_Witness ==
    /\ sortConfig.field # NoField
    /\ searchTerm # <<>>
    /\ sortedData # data
    /\ filteredData # <<>>
    /\ Len(filteredData) < Len(sortedData)

\* C14: no step of the table changes the data prop.
C14_InputNotMutated == [][data' = data]_vars

\* A sorted view in another order than the input it was computed from.
C14_Witness ==
    /\ sortConfig.field # NoField
    /\ Len(data) = MaxRows
    /\ sortedData # data
    /\ filteredData # data

\* C15: with a non-empty search term, filtering the view again with the same
\* term gives the view, and every row of the view matches the term.
C15_FilterIdempotent ==
    searchTerm # <<>>
        => /\ FilteredData(filteredData, searchTerm) = filteredData
           /\ \A i \in 1..Len(filteredData) : SpecMatches(Objects[filteredData[i]], searchTerm)

\* A view that the term "a" narrowed to two rows or more.
C15_Witness ==
    /\ searchTerm = <<97>>
    /\ Len(filteredData) >= 2
    /\ Len(filteredData) < Len(data)

(***************************************************************************)
(* Claims about the purity of calcCarPrice, checked under Spec.            *)
(***************************************************************************)
\* Values of fields of a reservation that calcCarPrice does not name: the
\* client, the payment method, the deposit (as a number) and the notes.
OtherFields ==
    {("name" :> n) @@ ("paymentMethod" :> p) @@ ("deposit" :> d) @@ ("notes" :> t) :
        n \in {"Awa"}, p \in {"", "Carte"}, d \in {0, 100}, t \in {"urgent"}}

C18_ViewNeverPersisted ==
    [][searchTerm' # searchTerm \/ sortConfig' # sortConfig
           => records' = records /\ storage' = storage]_vars

\* A stored project list shown searched and sorted into another order, the
\* stored value being the list in its own order.
C18_Witness ==
    /\ searchTerm # <<>>
    /\ sortConfig.field # NoField
    /\ Len(records) = MaxRows
    /\ storage = Stored(records)
    /\ filteredData # <<>>
    /\ sortedData # SelectSeq(records, LAMBDA id : id \in {sortedData[i] : i \in 1..Len(sortedData)})

\* The records of a list, as a set.
Range(list) == {list[i] : i \in 1..Len(list)}

\* C20: in the portfolio tab, with a non-empty search term and no category
\* filter, the rows displayed are exactly the projects one of whose fields,
\* as a string, contains the term up to case.
C20_PortfolioSearchAnyField ==
    searchTerm # <<>> /\ filters.categorie = <<>>
        => Range(filteredData) = {id \in Range(records) : SpecMatches(Objects[id], searchTerm)}

\* Some field among titre, categorie, localisation and description of the
\* project contains term up to case.
SpecMatchesShownText(item, term) ==
    SpecMatches([f \in DOMAIN item \cap {"titre", "categorie", "localisation", "description"}
                    |-> item[f]], term)

\* C20 with the four fields PortfolioTab searches: the rows displayed are
\* exactly the projects whose titre, categorie, localisation or description
\* contains the term up to case.
C20_PortfolioSearchFourFields ==
    searchTerm # <<>> /\ filters.categorie = <<>>
        => Range(filteredData) = {id \in Range(records) : SpecMatchesShownText(Objects[id], searchTerm)}

(***************************************************************************)
(* Claims about the reservation form, checked under SpecForm.              *)
(***************************************************************************)
\* The keys of the body of a POST or PUT, as the specification lists them.
PayloadKeys ==
    {"nom_client", "email", "telephone", "type_modele_voiture", "date_heure_depart",
     "date_heure_retour", "lieu_prise_en_charge", "lieu_restitution", "options",
     "commentaires"}

\* The step evaluates calcCarPrice for display.
PriceRendered == site' # site \/ price' # price \/ reservation' # reservation

\* C17: the body of every POST or PUT sent has exactly the ten fields
\* nom_client, email, telephone, type_modele_voiture, date_heure_depart,
\* date_heure_retour, lieu_prise_en_charge, lieu_restitution, options and
\* commentaires, none of which is a price, and a step that renders a price
\* leaves formData, the reservation list and localStorage as they were.
C17_PriceDisplayOnly ==
    [][/\ \A i \in 1..Len(requests') :
            requests'[i].method # "GET" => DOMAIN requests'[i].body = PayloadKeys
       /\ PriceRendered =>
            formData' = formData /\ records' = records /\ storage' = storage]_vars

\* A submission was sent while the preview showed a price above zero.
C17_Witness ==
    /\ site = "preview"
    /\ price \in {Num(n) : n \in 1..2000}
    /\ \E i \in 1..Len(requests) : requests[i].method = "POST"

\* The fields the specification requires are all filled.
SpecRequiredFilled(f) ==
    /\ \A k \in {"name", "email", "vehicleType", "pickupLocation", "dropoffLocation"} :
            f[k] # ""
    /\ Complete(f)

\* The end instant of the form is not after its start instant.
InvalidOrder(f) == ElapsedMinutes(f) <= 0

\* C19: a submission of the form with every required field filled and an
\* end instant not after the start instant sends no request, shows an error
\* toast, and leaves the modal open, formData and the reservation list as
\* they were.
C19_InvalidOrderRejected ==
    [][/\ HandleSubmit
       /\ SpecRequiredFilled(formData)
       /\ InvalidOrder(formData)
       => /\ requests' = requests
          /\ inflight' = inflight
          /\ toast'.type = "error"
          /\ modal' = modal /\ modal'.isOpen
          /\ formData' = formData
          /\ records' = records]_vars

\* The form was submitted with an end instant equal to the start instant:
\* the toast of the ordering test shows, nothing was sent, the modal is open.
C19_Witness ==
    /\ SpecRequiredFilled(formData)
    /\ ElapsedMinutes(formData) = 0
    /\ toast = Toast("error", "La date de fin doit être après la date de début")
    /\ requests = <<>>
    /\ modal.isOpen

(***************************************************************************)
(* Claims about the sort configuration, checked under SpecTable.           *)
(***************************************************************************)
\* The step is a call of handleSort: every call changes sortConfig.
SortClicked == sortConfig' # sortConfig

\* C21: the sort direction is always 'asc' or 'desc', and a call of
\* handleSort(f) makes f the sort field with direction 'desc' exactly when f
\* was the sort field with direction 'asc', and 'asc' otherwise.
C21_SortDirectionToggles ==
    /\ [](sortConfig.direction \in {"asc", "desc"})
    /\ [][SortClicked =>
            sortConfig'.direction =
                IF sortConfig'.field = sortConfig.field
                THEN (IF sortConfig.direction = "asc" THEN "desc" ELSE "asc")
                ELSE "asc"]_vars

\* The column budget was clicked twice in a row.
C21_Witness ==
    sortConfig = [field |-> "budget", direction |-> "desc"]

(***************************************************************************)
(* Claims about the reservations reloaded from the API, under SpecForm.    *)
(***************************************************************************)
\* The body was made from the form whose price the preview shows.
FromPreviewedForm(body) ==
    /\ body.type_modele_voiture = reservation.vehicleType
    /\ <<body.date_heure_depart.date>> = reservation.startDate
    /\ <<body.date_heure_depart.time>> = reservation.startTime
    /\ <<body.date_heure_retour.date>> = reservation.endDate
    /\ <<body.date_heure_retour.time>> = reservation.endTime
    /\ body.options = AllOptions(reservation)

\* The row at position k of the list is the reload of the body of a POST
\* sent from the previewed form, the API having stored it unchanged.
ReloadOfPreviewed(list, k) ==
    \E j \in 1..Len(requests) :
        /\ requests[j].method = "POST"
        /\ FromPreviewedForm(requests[j].body)
        /\ list[k] = MapItem(requests[j].body @@ [id |-> list[k].id])

\* The step replaces the list by a reload while the preview's price stands.
ReloadAfterPreview == site = "preview" /\ records' # records

\* C22: when a reload brings a reservation submitted from the form, the
\* price of the reloaded row equals the price the preview showed for the
\* form.
C22_PriceParity ==
    [][ReloadAfterPreview =>
        \A k \in 1..Len(records') :
            ReloadOfPreviewed(records', k) => calcCarPrice(records'[k]) = price]_vars

\* C22 for the forms with neither driver nor unlimited mileage.
C22_ParityWithoutDriverAndKm ==
    [][ReloadAfterPreview /\ ~reservation.driver /\ ~reservation.unlimitedKm =>
        \A k \in 1..Len(records') :
            ReloadOfPreviewed(records', k) => calcCarPrice(records'[k]) = price]_vars

\* A reservation previewed with insurance and equipment, sent and reloaded.
C22_ReloadedWitness ==
    /\ site = "preview"
    /\ reservation.insurances # <<>> /\ reservation.equipments # <<>>
    /\ \E k \in 1..Len(records) : ReloadOfPreviewed(records, k)

(***************************************************************************)
(* Claims about ReservationsTab inside the Dashboard, under SpecTab and    *)
(* SpecRefresh.                                                            *)
(***************************************************************************)
\* The step opens the creation modal.
CreationOpened ==
    /\ modal' # modal
    /\ modal'.isOpen
    /\ modal'.type = "create-reservation"

\* C23: whenever the creation modal is opened, formData is the empty form.
C23_CreationFormEmpty ==
    [][CreationOpened => formData' = EmptyFormData]_vars

\* C23 for the openings that follow a successful submission or a mount with
\* nothing typed and no row opened for edition since: the form is empty.
C23_EmptyAfterReset ==
    [][CreationOpened /\ formData = EmptyFormData => formData' = EmptyFormData]_vars

\* No refresh and no submission is waiting for the API or for its response.
AllAnswered == inflight = <<>>

\* C24: when no submission and no reload is outstanding, the list displayed
\* is the list the API holds.
C24_ListEqualsServer ==
    currentTab = "reservations" /\ AllAnswered => records = MapItems(server)

\* The list displayed is the API's after two submissions and their reloads.
C24_TwoSubmitsInSync ==
    /\ currentTab = "reservations" /\ AllAnswered
    /\ Len(server) >= 2
    /\ records = MapItems(server)

\* C26: whenever ReservationsTab is rendered with loading false and the
\* modal open on 'view-reservation', viewReservation is not null and is
\* modal.data.
C26_ViewReservationSet ==
    currentTab = "reservations" /\ ~loading /\ modal.isOpen /\ modal.type = "view-reservation"
        => viewReservation # Null /\ viewReservation = modal.data

\* C26 without navigation: while the tab that opened the detail modal stays
\* mounted, the detail modal has its reservation.
C26_SetWhileMounted ==
    [][currentTab' = currentTab /\ modal'.isOpen /\ modal'.type = "view-reservation"
       /\ (modal.isOpen /\ modal.type = "view-reservation" => viewReservation # Null)
       => viewReservation' # Null /\ viewReservation' = modal'.data]_vars

(***************************************************************************)
(* Claims about the Dashboard's data, checked under SpecDashboard.         *)
(***************************************************************************)
\* The data a delete confirmation leaves when it removes the dialog's
\* project from the list current at the confirmation.
DeletedFromCurrent ==
    [portfolio |-> Arr(WithoutProject(PortfolioList, confirmDialog.portfolio))]
        @@ dashboardData

\* C25: no update of the data is lost: an import that completes puts the
\* keys of the file over the data current at completion, and a confirmed
\* delete removes the project from the list current at the confirmation.
C25_NoUpdateLost ==
    [][/\ \A i \in 1..Len(reads) :
             ReaderOnload(i) /\ Parsable(reads[i].content)
                 => dashboardData' = Merge(dashboardData, JsonParse(reads[i].content))
       /\ ConfirmDialogConfirm /\ confirmDialog.onConfirm = "delete-portfolio"
             => dashboardData' = DeletedFromCurrent]_vars

\* An import whose data did not change between the selection of the file
\* and the end of the read puts the file's keys over the current data.
C25_CurrentWhenNoChangeBetween ==
    [][\A i \in 1..Len(reads) :
           ReaderOnload(i) /\ Parsable(reads[i].content) /\ reads[i].data = dashboardData
               => dashboardData' = Merge(dashboardData, JsonParse(reads[i].content))]_vars

\* C27: data.devis, data.reservations and data.portfolio are arrays.
C27_DataListsAreArrays ==
    \A key \in {"devis", "reservations", "portfolio"} :
        IsArray(DataGet(dashboardData, key))

\* Every step but the end of a file read keeps the three lists arrays.
C27_ArraysWithoutImport ==
    [][C27_DataListsAreArrays /\ reads = <<>> /\ reads' = <<>> => C27_DataListsAreArrays']_vars

\* An import over data whose three lists are arrays leaves them arrays.
C27_ArraysAfterImport ==
    [][\A i \in 1..Len(reads) :
           ReaderOnload(i) /\ C27_DataListsAreArrays => C27_DataListsAreArrays']_vars

\* A file that does not parse leaves data unchanged and shows the error toast.
C27_UnparsableFileLeavesData ==
    [][\A i \in 1..Len(reads) :
           ReaderOnload(i) /\ ~Parsable(reads[i].content)
               => /\ dashboardData' = dashboardData
                  /\ toast' = Toast("error", "Erreur lors de l'import")]_vars

\* C28: the ids of the portfolio records are pairwise distinct.
C28_PortfolioIdsDistinct ==
    \A i, j \in 1..Len(PortfolioList) :
        i # j => PortfolioList[i].id # PortfolioList[j].id

\* An edit keeps the length of the list, and every record's id and
\* date_creation at its position.
C28_EditKeepsIdsAndDates ==
    [][PortfolioHandleSubmit /\ modal.type = "edit-portfolio" /\ modal' = ClosedModal
          => /\ Len(PortfolioList') = Len(PortfolioList)
             /\ \A i \in 1..Len(PortfolioList) :
                   /\ PortfolioList'[i].id = PortfolioList[i].id
                   /\ PortfolioList'[i].date_creation = PortfolioList[i].date_creation]_vars

OkResponse(log, k) == log[k].reply.t = "response" /\ log[k].reply.ok

\* The step is the arrival of the outcome of the k-th request.
Answered(k) == loginRequests[k].reply = NoReply /\ loginRequests'[k].reply # NoReply

\* The email is empty or malformed (it has no "@" after a first character
\* that is followed, a character or more later, by a "." before its last
\* character), or the password has fewer than 6 characters.
SpecInvalid(body) ==
    \/ body.email = <<>>
    \/ ~\E a, d \in 1..Len(body.email) :
           /\ 1 < a /\ a + 1 < d /\ d < Len(body.email)
           /\ body.email[a] = 64 /\ body.email[d] = 46
    \/ Len(body.mot_de_passe) < 6

\* C30: the three keys are written and the redirect is triggered only after
\* a login request that returned an ok response; a submission that fails
\* validation sends no request; a request that was rejected or whose
\* response is not ok writes nothing and sets no redirect; isLoading is
\* false after every outcome of a submission.
C30_LoginWritesOnlyAfterOk ==
    /\ [](/\ redirectTimer \/ redirectToDashboard \/ location = "/dashboard"
             => \E k \in 1..Len(loginRequests) : OkResponse(loginRequests, k)
          /\ \A k \in 1..Len(loginRequests) : ~SpecInvalid(loginRequests[k].body))
    /\ [][/\ authStorage' # authStorage
             => /\ \E k \in 1..Len(loginRequests) :
                      Answered(k) /\ OkResponse(loginRequests', k)
                /\ {e.key : e \in authStorage'} = {"user", "isAuthenticated", "authToken"}
          /\ \A k \in 1..Len(loginRequests) :
                Answered(k) /\ ~OkResponse(loginRequests', k)
                   => /\ authStorage' = authStorage
                      /\ redirectTimer' = redirectTimer
                      /\ redirectToDashboard' = redirectToDashboard
                      /\ location' = location
          /\ \A k \in 1..Len(loginRequests) : Answered(k) => ~isLoading'
          /\ SpecInvalid(LoginBody(authFormData))
                => loginRequests' = loginRequests /\ isLoading' = isLoading]_vars

\* A login that got an ok response wrote the three keys and the page went
\* to /dashboard, after an earlier request was refused.
C30_RedirectedAfterRefusal ==
    /\ location = "/dashboard"
    /\ {e.key : e \in authStorage} = {"user", "isAuthenticated", "authToken"}
    /\ Len(loginRequests) = 2
    /\ ~OkResponse(loginRequests, 1)
    /\ OkResponse(loginRequests, 2)
    /\ ~isLoading

====
